---- MODULE Spec2Model ----
(***************************************************************************)
(* Model of the cache-fronted post storage of vida-redis-poc:              *)
(* RedisCacheService (src/lib/redis.ts) in front of the GitHub-backed      *)
(* GitHubService (src/lib/github.ts).  Every await of the source is a step *)
(* boundary: the clock, the cache backend's reachability and its physical  *)
(* key expiry may change between two steps of a request.                   *)
(***************************************************************************)
EXTENDS Integers, Sequences, FiniteSets, TLC

\* ------------------------------------------------------------------ bounds
\* Number of freshness windows the clock of the cache runs through.
MaxWindows == 1
\* Milliseconds the clock runs past a window boundary.
MaxJitter == 1
\* Number of coordinator calls in a run.
MaxOps == 2
\* Request slots (concurrent call chains).
NumReqs == 2

\* ------------------------------------------------------- program constants
\* RedisCacheService.CACHE_TTL, in seconds.
CACHE_TTL == 420
\* Milliseconds per second: the divisor of timeDiff in redis.ts.
MsPerSec == 1000

Reqs == 1..NumReqs

\* Instants (ms since the start of the run) the clock can show: the first
\* milliseconds of the run, and the same around each window boundary.
Millis == 0..MaxJitter
Times == {k * CACHE_TTL * MsPerSec + j : k \in 0..MaxWindows, j \in Millis}

VARIABLES
    now,        \* the wall clock, in ms (Date.now())
    redis,      \* module-level client: TRUE iff the Upstash env vars were set
    up,         \* TRUE iff a backend call made now succeeds
    cachePosts, \* backend keys blog:post:<id> -> [val, exp]
    cacheList,  \* backend key blog:posts:list: NoList or [val, exp]
    files,      \* the durable store: posts/<id>.json -> file content
    req,        \* per call chain: position and locals of the call in flight
    nops,       \* number of coordinator calls started
    cres,       \* the last direct CacheStore call and its result
    nfiles,     \* the durable store of the cache-naive coordinator
    nreq,       \* the call in flight of the cache-naive coordinator
    http,       \* the last request to the posts API and its response
    usersFile,  \* USERS_FILE (data/users.json): the stored users, in order
    signup      \* the createUser calls: position and locals, and who was created

vars ==
    <<now, redis, up, cachePosts, cacheList, files, req, nops, cres, nfiles, nreq, http, usersFile, signup>>

\* What the coordinator's steps and the environment leave alone.
aux == <<cres, nfiles, nreq, http, usersFile, signup>>

\* ----------------------------------------------------------------- values
Null == [absent |-> TRUE]
NoList == [nolist |-> TRUE]
NoSha == <<>>
\* A JavaScript array: its elements in order.
Arr(items) == [items |-> items]

\* Date.prototype.toISOString: seconds and the .mmm millisecond field.
ToISOString(t) == <<t \div MsPerSec, t % MsPerSec>>
\* new Date(iso).getTime()
GetTime(iso) == iso[1] * MsPerSec + iso[2]

\* JSON.stringify(post, null, 2) of a BlogPost: the seven fields in order.
JSONStringify(p) ==
    <<p.id, p.title, p.content, p.author, p.createdAt, p.updatedAt, p.published>>
\* JSON.parse of a post file.
JSONParse(c) ==
    [id |-> c[1], title |-> c[2], content |-> c[3], author |-> c[4],
     createdAt |-> c[5], updatedAt |-> c[6], published |-> c[7]]

\* File contents that are no post, by line: text that is not JSON, and the
\* JSON text null with its final newline.
Garbage == <<"{", "oops">>
JsonNull == <<"null", "">>
\* What JSON.parse(content) does with any file content: it throws on text that
\* is not JSON, yields null for the text null, and the post otherwise.
Thrown == [threw |-> TRUE]
Parse(c) ==
    IF Len(c) = 2 THEN (IF c = Garbage THEN Thrown ELSE Null)
    ELSE JSONParse(c)

\* The drafts a caller passes to createPost (Omit<BlogPost, id|createdAt|updatedAt>).
Drafts ==
    {[title |-> "t1", content |-> "c1", author |-> "a1", published |-> FALSE],
     [title |-> "t2", content |-> "c1", author |-> "a1", published |-> TRUE]}

\* The partial updates a caller passes to updatePost.
Updates == {[title |-> "t3"]}

Put(f, k, v) == [x \in DOMAIN f \cup {k} |-> IF x = k THEN v ELSE f[x]]
Del(f, k) == [x \in DOMAIN f \ {k} |-> f[x]]
Empty == [x \in {} |-> Null]

\* ------------------------------------------------ RedisCacheService (redis.ts)
\* A backend call succeeds iff the client exists and the backend answers.
Reachable == redis /\ up

\* isAvailable(): ping, false on any failure.
\* (A faulty variant: the failing ping is not caught as unavailable.)
isAvailable_configured == redis
isAvailable == Reachable

\* The seven BlogPost fields of a cached post (the object literals of
\* GitHubService.getPost / getAllPosts).
\* (A faulty variant: the cached object is returned as it is.)
StripCachedAt_keep(c) == c
StripCachedAt(c) ==
    [id |-> c.id, title |-> c.title, content |-> c.content, author |-> c.author,
     createdAt |-> c.createdAt, updatedAt |-> c.updatedAt, published |-> c.published]

\* {...post, cachedAt: new Date().toISOString()}
Stamp(p, t) ==
    [id |-> p.id, title |-> p.title, content |-> p.content, author |-> p.author,
     createdAt |-> p.createdAt, updatedAt |-> p.updatedAt, published |-> p.published,
     cachedAt |-> ToISOString(t)]

\* timeDiff > CACHE_TTL, timeDiff = (now - cacheTime) / 1000 seconds.
\* (A faulty variant: >= in place of >.)
Expired_ge(c, t) == (t - GetTime(c.cachedAt)) >= CACHE_TTL * MsPerSec
Expired(c, t) == (t - GetTime(c.cachedAt)) > CACHE_TTL * MsPerSec

\* redis.setex(key, CACHE_TTL, value): the value and its physical expiry.
Setex(v, t) == [val |-> v, exp |-> t + CACHE_TTL * MsPerSec]

\* getPost(id): null when unreachable, missing or logically expired.
\* (A faulty variant: without the try/catch a failed backend call is thrown to
\* the caller.)
Raised == [raised |-> TRUE]
redisGetPost_uncaught(id) ==
    IF ~redis THEN Null
    ELSE IF ~up THEN Raised
    ELSE IF id \notin DOMAIN cachePosts THEN Null
    ELSE IF Expired(cachePosts[id].val, now) THEN Null
    ELSE cachePosts[id].val
redisGetPost(id) ==
    IF ~Reachable THEN Null
    ELSE IF id \notin DOMAIN cachePosts THEN Null
    ELSE IF Expired(cachePosts[id].val, now) THEN Null
    ELSE cachePosts[id].val

\* setPost(post): re-stamps and stores; a no-op when unreachable.
redisSetPost(cp, p) ==
    IF ~Reachable THEN cp ELSE Put(cp, p.id, Setex(Stamp(p, now), now))

\* invalidatePost(id): deletes the key; a no-op when unreachable.
redisInvalidatePost(cp, id) ==
    IF ~Reachable THEN cp ELSE Del(cp, id)

\* getAllPosts(): null when unreachable, missing, or any entry is expired.
\* (A faulty variant: the expired entries are filtered out of the list.)
RECURSIVE FreshOnly(_)
FreshOnly(l) ==
    IF l = <<>> THEN <<>>
    ELSE (IF Expired(Head(l), now) THEN <<>> ELSE <<Head(l)>>) \o FreshOnly(Tail(l))
redisGetAllPosts_filter ==
    IF ~Reachable THEN Null
    ELSE IF cacheList = NoList THEN Null
    ELSE Arr(FreshOnly(cacheList.val.items))
redisGetAllPosts ==
    IF ~Reachable THEN Null
    ELSE IF cacheList = NoList THEN Null
    ELSE IF \E i \in DOMAIN cacheList.val.items :
                Expired(cacheList.val.items[i], now) THEN Null
    ELSE cacheList.val

\* setAllPosts(posts): stamps every entry and stores the snapshot.
\* (A faulty variant: the entries keep the cachedAt they came with.)
redisSetAllPosts_nostamp(cl, posts) ==
    IF ~Reachable THEN cl ELSE Setex(posts, now)
redisSetAllPosts(cl, posts) ==
    IF ~Reachable THEN cl
    ELSE Setex(Arr([i \in DOMAIN posts.items |-> Stamp(posts.items[i], now)]), now)

\* invalidateAllPosts(): deletes the list key; a no-op when unreachable.
redisInvalidateAllPosts(cl) ==
    IF ~Reachable THEN cl ELSE NoList

\* ------------------------------------------------------------ environment
\* Time passes, to the next instant of T.  The backend has dropped every key
\* whose setex time-to-live ran out before that instant (redis.setex, CACHE_TTL).
NextTime(T) == CHOOSE t \in T : t > now /\ \A u \in T : u > now => t <= u

Tick(T) ==
    /\ \E t \in T : t > now
    /\ now' = NextTime(T)
    /\ cachePosts' = [id \in {i \in DOMAIN cachePosts : cachePosts[i].exp >= NextTime(T)}
                         |-> cachePosts[id]]
    /\ cacheList' = IF cacheList # NoList /\ cacheList.exp < NextTime(T)
                    THEN NoList ELSE cacheList
    /\ UNCHANGED <<redis, up, files, req, nops>>

\* The backend becomes unreachable / reachable again.

RedisDown ==
    /\ redis /\ up
    /\ up' = FALSE
    /\ UNCHANGED <<now, redis, cachePosts, cacheList, files, req, nops>>

RedisUp ==
    /\ redis /\ ~up
    /\ up' = TRUE
    /\ UNCHANGED <<now, redis, cachePosts, cacheList, files, req, nops>>

\* The backend drops a key at the instant its setex time-to-live runs out (the
\* backend's clock may be ahead of or behind Date.now() by less than a tick).
EvictPost ==
    /\ \E id \in DOMAIN cachePosts :
          /\ now >= cachePosts[id].exp
          /\ cachePosts' = Del(cachePosts, id)
    /\ UNCHANGED <<now, redis, up, cacheList, files, req, nops>>

EvictList ==
    /\ cacheList # NoList
    /\ now >= cacheList.exp
    /\ cacheList' = NoList
    /\ UNCHANGED <<now, redis, up, cachePosts, files, req, nops>>


\* ------------------------------------------------- GitHubService (github.ts)
Idle(r) == req[r].pc = "done"

\* What a call chain remembers of the call it made last.  Two fields of a call
\* record what it did rather than a local of the source: wrote (its optimistic
\* cache write reached the backend) and via (where its read was served from:
\* "cache", "durable", "failed" when the durable read failed, or "partial" when
\* the listing succeeded and a listed file could not be read).
Summary(q) == [op |-> q.op, id |-> q.id, ret |-> q.ret, wrote |-> q.wrote]

\* A fresh call: locals cleared, the previous call remembered.
Begin(q, op, id, arg, pc) ==
    [pc |-> pc, op |-> op, id |-> id, arg |-> arg,
     isRedisAvailable |-> isAvailable, existingPost |-> Null, post |-> Null,
     sha |-> NoSha, ret |-> Null, wrote |-> FALSE, via |-> "none",
     last |-> Summary(q)]

\* return v: the locals go out of scope.
Return(q, v) ==
    [q EXCEPT !.pc = "done", !.ret = v, !.arg = Null, !.existingPost = Null,
              !.post = Null, !.sha = NoSha, !.isRedisAvailable = FALSE]

InitReq ==
    [pc |-> "done", op |-> "none", id |-> 0, arg |-> Null,
     isRedisAvailable |-> FALSE, existingPost |-> Null, post |-> Null,
     sha |-> NoSha, ret |-> Null, wrote |-> FALSE, via |-> "none",
     last |-> [op |-> "none", id |-> 0, ret |-> Null, wrote |-> FALSE]]

\* octokit.repos.createOrUpdateFileContents: with no sha the path must be new;
\* with a sha the file must exist and its blob sha (a function of its content)
\* must be the one given.  ok = FALSE is a transport failure.
WriteAccepted(fs, ok, id, sha) ==
    /\ ok
    /\ IF sha = NoSha THEN id \notin DOMAIN fs
       ELSE id \in DOMAIN fs /\ fs[id] = sha

\* createOrUpdateFile(path, content, message, sha): the store after the call.
createOrUpdateFile(fs, ok, id, content, sha) ==
    IF WriteAccepted(fs, ok, id, sha) THEN Put(fs, id, content) ELSE fs

\* getFileContent(path): the content, or null when missing or on error.
getFileContent(fs, ok, id) ==
    IF ok /\ id \in DOMAIN fs THEN fs[id] ELSE Null

\* octokit.repos.getContent(path).sha: the blob sha, none when missing or on error.
\* (A faulty variant: a failed lookup is not noticed and yields a sha of no file.)
getSha_unchecked(fs, ok, id) ==
    IF ok /\ id \in DOMAIN fs THEN fs[id] ELSE <<"undefined">>
getSha(fs, ok, id) ==
    IF ok /\ id \in DOMAIN fs THEN fs[id] ELSE NoSha

\* octokit.repos.deleteFile(path, sha): accepted iff the sha is the current one.
DeleteAccepted(fs, ok, id, sha) ==
    ok /\ id \in DOMAIN fs /\ fs[id] = sha

\* posts.sort((a, b) => getTime(b.createdAt) - getTime(a.createdAt)): a stable
\* insertion of each post behind every post that is not older.
RECURSIVE SortPosts(_)
InsertPost(sorted, p) ==
    LET k == Cardinality({i \in DOMAIN sorted :
                 GetTime(sorted[i].createdAt) >= GetTime(p.createdAt)})
    IN SubSeq(sorted, 1, k) \o <<p>> \o SubSeq(sorted, k + 1, Len(sorted))
SortPosts(posts) ==
    IF posts = <<>> THEN <<>>
    ELSE InsertPost(SortPosts(SubSeq(posts, 1, Len(posts) - 1)), posts[Len(posts)])

\* The directory listing of posts/: the files by name, ascending.
RECURSIVE Listing(_, _)
Listing(fs, ids) ==
    IF ids = {} THEN <<>>
    ELSE LET m == CHOOSE i \in ids : \A j \in ids : i <= j
         IN <<m>> \o Listing(fs, ids \ {m})

\* The loop of lines 137-149: every listed file that can be read is parsed, and
\* whatever JSON.parse yields without throwing is pushed.
RECURSIVE ReadPosts(_, _, _)
ReadPosts(fs, names, unreadable) ==
    IF names = <<>> THEN <<>>
    ELSE LET c == getFileContent(fs, Head(names) \notin unreadable, Head(names))
         IN (IF c = Null \/ Parse(c) = Thrown THEN <<>> ELSE <<Parse(c)>>)
            \o ReadPosts(fs, Tail(names), unreadable)

\* lines 151, 157-160: the comparator reads createdAt of both its arguments; on
\* a null element it raises a TypeError, which the outer catch turns into [].
\* A list of one element is returned without a call of the comparator.
SortOrEmpty(posts) ==
    IF Len(posts) >= 2 /\ \E i \in DOMAIN posts : posts[i] = Null THEN <<>>
    ELSE IF Len(posts) = 1 THEN posts
    ELSE SortPosts(posts)

\* lines 124-160: the posts of the durable store, newest first; [] when the
\* listing fails.
DurablePosts(fs, ok, unreadable) ==
    IF ~ok THEN <<>>
    ELSE SortOrEmpty(ReadPosts(fs, Listing(fs, DOMAIN fs), unreadable))

\* --- getAllPosts()
\* lines 104-106: probe the cache.
GetAllStart(r) ==
    /\ Idle(r) /\ nops < MaxOps
    /\ nops' = nops + 1
    /\ req' = [req EXCEPT ![r] =
          Begin(@, "getAllPosts", 0, Null, IF isAvailable THEN "a_cache" ELSE "a_durable")]
    /\ UNCHANGED <<now, redis, up, cachePosts, cacheList, files>>

\* lines 107-119: a non-empty cached list is returned without cachedAt.
\* (A faulty variant: without the length test an empty cached list is a hit.)
GetAllCache_nolen(r) ==
    /\ req[r].pc = "a_cache"
    /\ LET c == redisGetAllPosts IN
          req' = [req EXCEPT ![r] =
              IF c # Null
              THEN Return([@ EXCEPT !.via = "cache"],
                          Arr([i \in DOMAIN c.items |-> StripCachedAt(c.items[i])]))
              ELSE [@ EXCEPT !.pc = "a_durable"]]
    /\ UNCHANGED <<now, redis, up, cachePosts, cacheList, files, nops>>
GetAllCache(r) ==
    /\ req[r].pc = "a_cache"
    /\ LET c == redisGetAllPosts IN
          req' = [req EXCEPT ![r] =
              IF c # Null /\ Len(c.items) > 0
              THEN Return([@ EXCEPT !.via = "cache"],
                          Arr([i \in DOMAIN c.items |-> StripCachedAt(c.items[i])]))
              ELSE [@ EXCEPT !.pc = "a_durable"]]
    /\ UNCHANGED <<now, redis, up, cachePosts, cacheList, files, nops>>

\* lines 122-160: list the durable store; the cache is not repopulated.
\* (A faulty variant: the listed posts are stored as the list snapshot.)
GetAllDurable_populate(r, ok, unreadable) ==
    /\ req[r].pc = "a_durable"
    /\ req' = [req EXCEPT ![r] =
          Return([@ EXCEPT !.via = IF ~ok THEN "failed"
                                   ELSE IF unreadable = {} THEN "durable"
                                   ELSE "partial"],
                 Arr(DurablePosts(files, ok, unreadable)))]
    /\ cacheList' = IF ok THEN redisSetAllPosts(cacheList, Arr(DurablePosts(files, ok, unreadable)))
                    ELSE cacheList
    /\ UNCHANGED <<now, redis, up, cachePosts, files, nops>>
GetAllDurable(r, ok, unreadable) ==
    /\ req[r].pc = "a_durable"
    /\ req' = [req EXCEPT ![r] =
          Return([@ EXCEPT !.via = IF ~ok THEN "failed"
                                   ELSE IF unreadable = {} THEN "durable"
                                   ELSE "partial"],
                 Arr(DurablePosts(files, ok, unreadable)))]
    /\ UNCHANGED <<now, redis, up, cachePosts, cacheList, files, nops>>

\* --- getPost(id)
\* lines 196-198: probe the cache.
GetPostStart(r, id) ==
    /\ Idle(r) /\ nops < MaxOps
    /\ nops' = nops + 1
    /\ req' = [req EXCEPT ![r] =
          Begin(@, "getPost", id, Null, IF isAvailable THEN "g_cache" ELSE "g_durable")]
    /\ UNCHANGED <<now, redis, up, cachePosts, cacheList, files>>

\* updatePost, lines 325-329: {...existingPost, ...updates, updatedAt: now}.
\* (A faulty variant: the spread without the refresh of updatedAt.)
Merge_stale(existing, updates, t) ==
    [f \in DOMAIN existing |->
        IF f \in DOMAIN updates THEN updates[f] ELSE existing[f]]
Merge(existing, updates, t) ==
    [f \in DOMAIN existing |->
        IF f = "updatedAt" THEN ToISOString(t)
        ELSE IF f \in DOMAIN updates THEN updates[f] ELSE existing[f]]

\* What getPost's caller does with the result: a plain getPost returns it;
\* updatePost (lines 322-329) stops on null, else merges.
\* (A faulty variant: updatePost without the null check of line 323 merges the updates
\* over an empty object.)
UndefinedPost(id) ==
    [id |-> id, title |-> "undefined", content |-> "undefined",
     author |-> "undefined", createdAt |-> ToISOString(0),
     updatedAt |-> ToISOString(0), published |-> FALSE]
GotPost_nocheck(q, p) ==
    IF q.op = "getPost" THEN Return(q, p)
    ELSE LET e == IF p = Null THEN UndefinedPost(q.id) ELSE p IN
         [q EXCEPT !.existingPost = e,
                   !.post = Merge(e, q.arg, now),
                   !.pc = "u_probe"]
GotPost(q, p) ==
    IF q.op = "getPost" THEN Return(q, p)
    ELSE IF p = Null THEN Return(q, Null)
    ELSE [q EXCEPT !.existingPost = p,
                   !.post = Merge(p, q.arg, now),
                   !.pc = "u_probe"]

\* lines 199-212: a cache hit returns the cached post without cachedAt.
\* (A faulty variant: the read deletes the entry it finds expired.)
GetPostCache_evict(r) ==
    /\ req[r].pc = "g_cache"
    /\ LET c == redisGetPost(req[r].id) IN
          /\ req' = [req EXCEPT ![r] =
                IF c # Null THEN GotPost([@ EXCEPT !.via = "cache"], StripCachedAt(c))
                ELSE [@ EXCEPT !.pc = "g_durable"]]
          /\ cachePosts' = IF c = Null /\ Reachable THEN Del(cachePosts, req[r].id)
                           ELSE cachePosts
    /\ UNCHANGED <<now, redis, up, cacheList, files, nops>>
GetPostCache(r) ==
    /\ req[r].pc = "g_cache"
    /\ LET c == redisGetPost(req[r].id) IN
          req' = [req EXCEPT ![r] =
              IF c # Null THEN GotPost([@ EXCEPT !.via = "cache"], StripCachedAt(c))
              ELSE [@ EXCEPT !.pc = "g_durable"]]
    /\ UNCHANGED <<now, redis, up, cachePosts, cacheList, files, nops>>

\* lines 214-229: read the post file; the cache is not repopulated.
\* (A faulty variant: the post read from the durable store is put in the cache.)
GetPostDurable_repopulate(r, ok) ==
    /\ req[r].pc = "g_durable"
    /\ LET content == getFileContent(files, ok, req[r].id) IN
          /\ req' = [req EXCEPT ![r] =
                GotPost([@ EXCEPT !.via = IF ok THEN "durable" ELSE "failed"],
                        IF content = Null THEN Null ELSE JSONParse(content))]
          /\ cachePosts' = IF content = Null THEN cachePosts
                           ELSE redisSetPost(cachePosts, JSONParse(content))
    /\ UNCHANGED <<now, redis, up, cacheList, files, nops>>
GetPostDurable(r, ok) ==
    /\ req[r].pc = "g_durable"
    /\ LET content == getFileContent(files, ok, req[r].id) IN
          req' = [req EXCEPT ![r] =
              GotPost([@ EXCEPT !.via = IF ok THEN "durable" ELSE "failed"],
                      IF content = Null THEN Null ELSE JSONParse(content))]
    /\ UNCHANGED <<now, redis, up, cachePosts, cacheList, files, nops>>

\* --- createPost(post)
\* lines 251-259: id and timestamps from the clock.
NewPost(draft, t) ==
    [id |-> t, title |-> draft.title, content |-> draft.content,
     author |-> draft.author, createdAt |-> ToISOString(t),
     updatedAt |-> ToISOString(t), published |-> draft.published]

\* lines 251-267: assemble the post and probe the cache.
\* (A faulty variant: the durable write is issued first, the cache set skipped.)
CreateStart_writefirst(r, draft) ==
    /\ Idle(r) /\ nops < MaxOps
    /\ nops' = nops + 1
    /\ req' = [req EXCEPT ![r] =
          [Begin(@, "createPost", now, draft, "c_write")
             EXCEPT !.post = NewPost(draft, now)]]
    /\ UNCHANGED <<now, redis, up, cachePosts, cacheList, files>>
CreateStart(r, draft) ==
    /\ Idle(r) /\ nops < MaxOps
    /\ nops' = nops + 1
    /\ req' = [req EXCEPT ![r] =
          [Begin(@, "createPost", now, draft,
                 IF isAvailable THEN "c_set" ELSE "c_write")
             EXCEPT !.post = NewPost(draft, now)]]
    /\ UNCHANGED <<now, redis, up, cachePosts, cacheList, files>>

\* lines 268-273: the optimistic cache write.
CreateSet(r) ==
    /\ req[r].pc = "c_set"
    /\ cachePosts' = redisSetPost(cachePosts, req[r].post)
    /\ req' = [req EXCEPT ![r].pc = "c_write", ![r].wrote = Reachable]
    /\ UNCHANGED <<now, redis, up, cacheList, files, nops>>

\* lines 281-287 and 303: the durable write; without a cache the call returns here.
\* (A faulty variant: the outcome of the durable write is not looked at.)
CreateWrite_ignore(r, ok) ==
    /\ req[r].pc = "c_write"
    /\ files' = createOrUpdateFile(files, ok, req[r].id,
                                   JSONStringify(req[r].post), NoSha)
    /\ req' = [req EXCEPT ![r] =
          IF ~@.isRedisAvailable THEN Return(@, @.post)
          ELSE [@ EXCEPT !.pc = "c_invall"]]
    /\ UNCHANGED <<now, redis, up, cachePosts, cacheList, nops>>
CreateWrite(r, ok) ==
    /\ req[r].pc = "c_write"
    /\ LET success == WriteAccepted(files, ok, req[r].id, NoSha) IN
          /\ files' = createOrUpdateFile(files, ok, req[r].id,
                                         JSONStringify(req[r].post), NoSha)
          /\ req' = [req EXCEPT ![r] =
                IF ~@.isRedisAvailable
                THEN Return(@, IF success THEN @.post ELSE Null)
                ELSE [@ EXCEPT !.pc = IF success THEN "c_invall" ELSE "c_invpost"]]
    /\ UNCHANGED <<now, redis, up, cachePosts, cacheList, nops>>

\* lines 289-294, 303: success: drop the list snapshot, return the post.
\* (A faulty variant: the entry of the new post is dropped with the snapshot.)
CreateInvalidateAll_both(r) ==
    /\ req[r].pc = "c_invall"
    /\ cacheList' = redisInvalidateAllPosts(cacheList)
    /\ cachePosts' = redisInvalidatePost(cachePosts, req[r].id)
    /\ req' = [req EXCEPT ![r] = Return(@, @.post)]
    /\ UNCHANGED <<now, redis, up, files, nops>>
CreateInvalidateAll(r) ==
    /\ req[r].pc = "c_invall"
    /\ cacheList' = redisInvalidateAllPosts(cacheList)
    /\ req' = [req EXCEPT ![r] = Return(@, @.post)]
    /\ UNCHANGED <<now, redis, up, cachePosts, files, nops>>

\* lines 295-303: failure: undo the optimistic cache write, return null.
\* (A faulty variant: after the rollback the durable write is tried again.)
CreateRollback_retry(r) ==
    /\ req[r].pc = "c_invpost"
    /\ cachePosts' = redisInvalidatePost(cachePosts, req[r].id)
    /\ req' = [req EXCEPT ![r].pc = "c_write"]
    /\ UNCHANGED <<now, redis, up, cacheList, files, nops>>
CreateRollback(r) ==
    /\ req[r].pc = "c_invpost"
    /\ cachePosts' = redisInvalidatePost(cachePosts, req[r].id)
    /\ req' = [req EXCEPT ![r] = Return(@, Null)]
    /\ UNCHANGED <<now, redis, up, cacheList, files, nops>>

\* --- updatePost(id, updates)
\* line 322: load the existing post through getPost (its probe, lines 196-198).
UpdateStart(r, id, updates) ==
    /\ Idle(r) /\ nops < MaxOps
    /\ nops' = nops + 1
    /\ req' = [req EXCEPT ![r] =
          Begin(@, "updatePost", id, updates,
                IF isAvailable THEN "g_cache" ELSE "g_durable")]
    /\ UNCHANGED <<now, redis, up, cachePosts, cacheList, files>>

\* line 336: probe the cache.
UpdateProbe(r) ==
    /\ req[r].pc = "u_probe"
    /\ req' = [req EXCEPT ![r].isRedisAvailable = isAvailable,
                          ![r].pc = IF isAvailable THEN "u_set" ELSE "u_sha"]
    /\ UNCHANGED <<now, redis, up, cachePosts, cacheList, files, nops>>

\* lines 337-344: the optimistic cache write of the merged post.
\* (A faulty variant: the cache write is skipped while another call is between
\* its own cache write and its return.)
UpdateSet_locked(r) ==
    /\ req[r].pc = "u_set"
    /\ cachePosts' =
          IF \E q \in Reqs \ {r} : req[q].pc \in {"u_sha", "u_write", "u_invall", "u_revert"}
          THEN cachePosts ELSE redisSetPost(cachePosts, req[r].post)
    /\ req' = [req EXCEPT ![r].pc = "u_sha", ![r].wrote = Reachable]
    /\ UNCHANGED <<now, redis, up, cacheList, files, nops>>
UpdateSet(r) ==
    /\ req[r].pc = "u_set"
    /\ cachePosts' = redisSetPost(cachePosts, req[r].post)
    /\ req' = [req EXCEPT ![r].pc = "u_sha", ![r].wrote = Reachable]
    /\ UNCHANGED <<now, redis, up, cacheList, files, nops>>

\* lines 346-360: fetch the file's sha; a failure leaves it undefined.
\* (A faulty variant: without a sha the update is given up and rolled back.)
UpdateSha_strict(r, ok) ==
    /\ req[r].pc = "u_sha"
    /\ LET sha == getSha(files, ok, req[r].id) IN
          req' = [req EXCEPT ![r] =
              IF sha # NoSha THEN [@ EXCEPT !.sha = sha, !.pc = "u_write"]
              ELSE IF @.isRedisAvailable THEN [@ EXCEPT !.pc = "u_revert"]
              ELSE Return(@, Null)]
    /\ UNCHANGED <<now, redis, up, cachePosts, cacheList, files, nops>>
UpdateSha(r, ok) ==
    /\ req[r].pc = "u_sha"
    /\ req' = [req EXCEPT ![r].sha = getSha(files, ok, req[r].id), ![r].pc = "u_write"]
    /\ UNCHANGED <<now, redis, up, cachePosts, cacheList, files, nops>>

\* lines 366-372 and 392: the durable write; without a cache the call returns here.
UpdateWrite(r, ok) ==
    /\ req[r].pc = "u_write"
    /\ LET success == WriteAccepted(files, ok, req[r].id, req[r].sha) IN
          /\ files' = createOrUpdateFile(files, ok, req[r].id,
                                         JSONStringify(req[r].post), req[r].sha)
          /\ req' = [req EXCEPT ![r] =
                IF ~@.isRedisAvailable
                THEN Return(@, IF success THEN @.post ELSE Null)
                ELSE [@ EXCEPT !.pc = IF success THEN "u_invall" ELSE "u_revert"]]
    /\ UNCHANGED <<now, redis, up, cachePosts, cacheList, nops>>

\* lines 374-379, 392: success: drop the list snapshot, return the merged post.
UpdateInvalidateAll(r) ==
    /\ req[r].pc = "u_invall"
    /\ cacheList' = redisInvalidateAllPosts(cacheList)
    /\ req' = [req EXCEPT ![r] = Return(@, @.post)]
    /\ UNCHANGED <<now, redis, up, cachePosts, files, nops>>

\* lines 380-392: failure: put the pre-update post back in the cache, return null.
UpdateRevert(r) ==
    /\ req[r].pc = "u_revert"
    /\ cachePosts' = redisSetPost(cachePosts, req[r].existingPost)
    /\ req' = [req EXCEPT ![r] = Return(@, Null)]
    /\ UNCHANGED <<now, redis, up, cacheList, files, nops>>

\* --- deletePost(id)
\* lines 411-413: probe the cache.
DeleteStart(r, id) ==
    /\ Idle(r) /\ nops < MaxOps
    /\ nops' = nops + 1
    /\ req' = [req EXCEPT ![r] =
          Begin(@, "deletePost", id, Null, IF isAvailable THEN "d_inv" ELSE "d_sha")]
    /\ UNCHANGED <<now, redis, up, cachePosts, cacheList, files>>

\* lines 414-416: the optimistic removal of the cache entry.
DeleteInvalidate(r) ==
    /\ req[r].pc = "d_inv"
    /\ cachePosts' = redisInvalidatePost(cachePosts, req[r].id)
    /\ req' = [req EXCEPT ![r].pc = "d_sha"]
    /\ UNCHANGED <<now, redis, up, cacheList, files, nops>>

\* lines 418-428, 472-475: fetch the sha; a missing file or an error returns false.
DeleteSha(r, ok) ==
    /\ req[r].pc = "d_sha"
    /\ LET sha == getSha(files, ok, req[r].id) IN
          req' = [req EXCEPT ![r] =
              IF sha = NoSha THEN Return(@, FALSE)
              ELSE [@ EXCEPT !.sha = sha, !.pc = "d_del"]]
    /\ UNCHANGED <<now, redis, up, cachePosts, cacheList, files, nops>>

\* lines 454-463, 471-475: delete the file; without a cache, or on error, the
\* call returns here.
\* (A faulty variant: a failed delete drops the list snapshot.)
DeleteFile_dropslist(r, ok) ==
    /\ req[r].pc = "d_del"
    /\ LET success == DeleteAccepted(files, ok, req[r].id, req[r].sha) IN
          /\ files' = IF success THEN Del(files, req[r].id) ELSE files
          /\ cacheList' = IF success THEN cacheList
                          ELSE redisInvalidateAllPosts(cacheList)
          /\ req' = [req EXCEPT ![r] =
                IF ~success THEN Return(@, FALSE)
                ELSE IF ~@.isRedisAvailable THEN Return(@, TRUE)
                ELSE [@ EXCEPT !.pc = "d_invall"]]
    /\ UNCHANGED <<now, redis, up, cachePosts, nops>>
DeleteFile(r, ok) ==
    /\ req[r].pc = "d_del"
    /\ LET success == DeleteAccepted(files, ok, req[r].id, req[r].sha) IN
          /\ files' = IF success THEN Del(files, req[r].id) ELSE files
          /\ req' = [req EXCEPT ![r] =
                IF ~success THEN Return(@, FALSE)
                ELSE IF ~@.isRedisAvailable THEN Return(@, TRUE)
                ELSE [@ EXCEPT !.pc = "d_invall"]]
    /\ UNCHANGED <<now, redis, up, cachePosts, cacheList, nops>>

\* lines 465-471: drop the list snapshot, return true.
DeleteInvalidateAll(r) ==
    /\ req[r].pc = "d_invall"
    /\ cacheList' = redisInvalidateAllPosts(cacheList)
    /\ req' = [req EXCEPT ![r] = Return(@, TRUE)]
    /\ UNCHANGED <<now, redis, up, cachePosts, files, nops>>

\* ------------------------------------------- direct calls of the cache store
\* What is known of the last direct call of a RedisCacheService method: the
\* method, its id argument, its result, the instant of the call, whether the
\* call reached the backend, and set: the list and instant of the last
\* setAllPosts that reached the backend with no setAllPosts or
\* invalidateAllPosts call since.
NoCall ==
    [op |-> "none", id |-> 0, ret |-> Null, at |-> 0, reached |-> FALSE, set |-> Null]

CacheCall(op, id, ret, set) ==
    [op |-> op, id |-> id, ret |-> ret, at |-> now, reached |-> Reachable, set |-> set]

\* redisCache.getAllPosts()
CallGetAllPosts ==
    /\ cres' = CacheCall("getAllPosts", 0, redisGetAllPosts, cres.set)
    /\ UNCHANGED <<now, redis, up, cachePosts, cacheList, files, req, nops, nfiles, nreq, http, usersFile, signup>>

\* redisCache.setAllPosts(posts)
CallSetAllPosts(posts) ==
    /\ cacheList' = redisSetAllPosts(cacheList, posts)
    /\ cres' = CacheCall("setAllPosts", 0, Null,
                         IF Reachable THEN [posts |-> posts, at |-> now] ELSE Null)
    /\ UNCHANGED <<now, redis, up, cachePosts, files, req, nops, nfiles, nreq, http, usersFile, signup>>

\* redisCache.getPost(id)
CallGetPost(id) ==
    /\ cres' = CacheCall("getPost", id, redisGetPost(id), cres.set)
    /\ UNCHANGED <<now, redis, up, cachePosts, cacheList, files, req, nops, nfiles, nreq, http, usersFile, signup>>

\* redisCache.setPost(post)
CallSetPost(p) ==
    /\ cachePosts' = redisSetPost(cachePosts, p)
    /\ cres' = CacheCall("setPost", p.id, Null, cres.set)
    /\ UNCHANGED <<now, redis, up, cacheList, files, req, nops, nfiles, nreq, http, usersFile, signup>>

\* redisCache.invalidatePost(id)
CallInvalidatePost(id) ==
    /\ cachePosts' = redisInvalidatePost(cachePosts, id)
    /\ cres' = CacheCall("invalidatePost", id, Null, cres.set)
    /\ UNCHANGED <<now, redis, up, cacheList, files, req, nops, nfiles, nreq, http, usersFile, signup>>

\* redisCache.invalidateAllPosts()
\* (A faulty variant: every key of the cache is deleted, not the list key alone.)
CallInvalidateAllPosts_flush ==
    /\ cacheList' = redisInvalidateAllPosts(cacheList)
    /\ cachePosts' = IF Reachable THEN Empty ELSE cachePosts
    /\ cres' = CacheCall("invalidateAllPosts", 0, Null, Null)
    /\ UNCHANGED <<now, redis, up, files, req, nops, nfiles, nreq, http, usersFile, signup>>
CallInvalidateAllPosts ==
    /\ cacheList' = redisInvalidateAllPosts(cacheList)
    /\ cres' = CacheCall("invalidateAllPosts", 0, Null, Null)
    /\ UNCHANGED <<now, redis, up, cachePosts, files, req, nops, nfiles, nreq, http, usersFile, signup>>

\* redisCache.isAvailable()
CallIsAvailable ==
    /\ cres' = CacheCall("isAvailable", 0, isAvailable, cres.set)
    /\ UNCHANGED <<now, redis, up, cachePosts, cacheList, files, req, nops, nfiles, nreq, http, usersFile, signup>>

\* ------------------------------------------------ the cache-naive coordinator
\* The coordinator with no cache at all: the paths of the coordinator with
\* every cache step left out.  It works on its own durable store nfiles.
NaiveIdle ==
    [pc |-> "done", op |-> "none", id |-> 0, arg |-> Null,
     existingPost |-> Null, post |-> Null, sha |-> NoSha, ret |-> Null]

NaiveBegin(op, id, arg, pc) ==
    [pc |-> pc, op |-> op, id |-> id, arg |-> arg,
     existingPost |-> Null, post |-> Null, sha |-> NoSha, ret |-> Null]

NaiveReturn(q, v) ==
    [q EXCEPT !.pc = "done", !.ret = v, !.arg = Null, !.existingPost = Null,
              !.post = Null, !.sha = NoSha]

\* getAllPosts: fetch the list from the durable store, newest first.
NaiveGetAllStart ==
    /\ nreq.pc = "done"
    /\ nreq' = NaiveBegin("getAllPosts", 0, Null, "a_durable")
    /\ UNCHANGED nfiles

NaiveGetAllDurable(ok, unreadable) ==
    /\ nreq.pc = "a_durable"
    /\ nreq' = NaiveReturn(nreq, Arr(DurablePosts(nfiles, ok, unreadable)))
    /\ UNCHANGED nfiles

\* getPost: read the durable record.
NaiveGetPostStart(id) ==
    /\ nreq.pc = "done"
    /\ nreq' = NaiveBegin("getPost", id, Null, "g_durable")
    /\ UNCHANGED nfiles

\* The read of getPost, and of updatePost's first step: NotFound when there is
\* no existing post, else the merge with a refreshed updatedAt.
NaiveGetPostDurable(ok) ==
    /\ nreq.pc = "g_durable"
    /\ LET content == getFileContent(nfiles, ok, nreq.id)
           p == IF content = Null THEN Null ELSE JSONParse(content)
       IN nreq' = IF nreq.op = "getPost" THEN NaiveReturn(nreq, p)
                  ELSE IF p = Null THEN NaiveReturn(nreq, Null)
                  ELSE [nreq EXCEPT !.existingPost = p,
                                    !.post = Merge(p, nreq.arg, now),
                                    !.pc = "u_sha"]
    /\ UNCHANGED nfiles

\* createPost: assign id and timestamps, write the new record.
NaiveCreateStart(draft) ==
    /\ nreq.pc = "done"
    /\ nreq' = [NaiveBegin("createPost", now, draft, "c_write")
                  EXCEPT !.post = NewPost(draft, now)]
    /\ UNCHANGED nfiles

NaiveCreateWrite(ok) ==
    /\ nreq.pc = "c_write"
    /\ nfiles' = createOrUpdateFile(nfiles, ok, nreq.id, JSONStringify(nreq.post), NoSha)
    /\ nreq' = NaiveReturn(nreq, IF WriteAccepted(nfiles, ok, nreq.id, NoSha)
                                 THEN nreq.post ELSE Null)

\* updatePost: load, merge, fetch the revision token, write.
NaiveUpdateStart(id, updates) ==
    /\ nreq.pc = "done"
    /\ nreq' = NaiveBegin("updatePost", id, updates, "g_durable")
    /\ UNCHANGED nfiles

NaiveUpdateSha(ok) ==
    /\ nreq.pc = "u_sha"
    /\ nreq' = [nreq EXCEPT !.sha = getSha(nfiles, ok, nreq.id), !.pc = "u_write"]
    /\ UNCHANGED nfiles

NaiveUpdateWrite(ok) ==
    /\ nreq.pc = "u_write"
    /\ nfiles' = createOrUpdateFile(nfiles, ok, nreq.id, JSONStringify(nreq.post), nreq.sha)
    /\ nreq' = NaiveReturn(nreq, IF WriteAccepted(nfiles, ok, nreq.id, nreq.sha)
                                 THEN nreq.post ELSE Null)

\* deletePost: fetch the revision token (NotFound without one), delete.
NaiveDeleteStart(id) ==
    /\ nreq.pc = "done"
    /\ nreq' = NaiveBegin("deletePost", id, Null, "d_sha")
    /\ UNCHANGED nfiles

NaiveDeleteSha(ok) ==
    /\ nreq.pc = "d_sha"
    /\ LET sha == getSha(nfiles, ok, nreq.id) IN
          nreq' = IF sha = NoSha THEN NaiveReturn(nreq, FALSE)
                  ELSE [nreq EXCEPT !.sha = sha, !.pc = "d_del"]
    /\ UNCHANGED nfiles

NaiveDeleteFile(ok) ==
    /\ nreq.pc = "d_del"
    /\ nfiles' = IF DeleteAccepted(nfiles, ok, nreq.id, nreq.sha)
                 THEN Del(nfiles, nreq.id) ELSE nfiles
    /\ nreq' = NaiveReturn(nreq, DeleteAccepted(nfiles, ok, nreq.id, nreq.sha))

\* ------------------------------------------- the posts API (app/api/posts)
\* getServerSession(authOptions) / auth(): the session carried by the request,
\* or none.
NoSession == [nosession |-> TRUE]
\* The optional author argument of the coordinator's writes, left out.
NoAuthor == [noauthor |-> TRUE]
Sessions == {[name |-> "a1", email |-> "e1"]}

\* No request made yet; a request whose coordinator call is in flight; a
\* response.
NoRequest ==
    [method |-> "none", session |-> NoSession, pending |-> FALSE, status |-> 0,
     data |-> Null, author |-> NoAuthor]
Pending(method, session) ==
    [method |-> method, session |-> session, pending |-> TRUE, status |-> 0,
     data |-> Null, author |-> NoAuthor]
Response(method, session, status, data) ==
    [method |-> method, session |-> session, pending |-> FALSE,
     status |-> status, data |-> data, author |-> NoAuthor]

\* [id]/route.ts lines 52-55, 91-94: the author the handler passes to the
\* coordinator, from a session that carries a name and an email.
AuthorInfo(session) == [name |-> session.name, email |-> session.email]
\* A call in flight that was given an author.
PendingAs(method, session, author) ==
    [Pending(method, session) EXCEPT !.author = author]

\* github.ts lines 69-79, 440-450: the commit carries the author it was given;
\* with none, the content API signs it with the account of the access token.
TokenAccount == [name |-> "token", email |-> "token"]
Committer(author) == IF author = NoAuthor THEN TokenAccount ELSE author

\* JSON bodies of POST /api/posts: complete, with published, without a title,
\* with an empty title.
PostBodies ==
    {[title |-> "t1", content |-> "c1"],
     [title |-> "t2", content |-> "c1", published |-> TRUE],
     [content |-> "c1"],
     [title |-> "", content |-> "c1"]}

\* JSON bodies of PUT /api/posts/[id]: a title, a title with an id, nothing.
PutBodies ==
    {[title |-> "t3"],
     [id |-> 1, title |-> "t3"],
     [published |-> TRUE]}

\* !x of a destructured body field: undefined or the empty string.
\* (A faulty variant: only a missing field counts, an empty one passes.)
Falsy_missing(body, f) == f \notin DOMAIN body
Falsy(body, f) == f \notin DOMAIN body \/ body[f] = ""

\* route.ts lines 39-44: the draft handed to createPost.
DraftOf(session, body) ==
    [title |-> body.title, content |-> body.content, author |-> session.name,
     published |-> IF "published" \in DOMAIN body THEN body.published ELSE FALSE]

\* [id]/route.ts lines 45-50: only title, content and published are taken.
\* (A faulty variant: the whole body is handed to updatePost.)
UpdatesOf_all(body) == body
UpdatesOf(body) ==
    [f \in DOMAIN body \cap {"title", "content", "published"} |-> body[f]]

\* A handler that answers without calling the coordinator.
Answer(method, session, status) ==
    /\ http' = Response(method, session, status, Null)
    /\ UNCHANGED <<now, redis, up, cachePosts, cacheList, files, req, nops>>

\* GET /api/posts, route.ts lines 6-8: no session is looked up.
ApiGET(session) ==
    /\ ~http.pending
    /\ GetAllStart(1)
    /\ http' = Pending("GET", session)
    /\ UNCHANGED <<cres, nfiles, nreq, usersFile, signup>>

\* POST /api/posts, route.ts lines 19-44.
ApiPOST(session, body) ==
    /\ ~http.pending /\ Idle(1)
    /\ IF session = NoSession THEN Answer("POST", session, 401)
       ELSE IF Falsy(body, "title") \/ Falsy(body, "content")
            THEN Answer("POST", session, 400)
       ELSE /\ CreateStart(1, DraftOf(session, body))
            /\ http' = Pending("POST", session)
    /\ UNCHANGED <<cres, nfiles, nreq, usersFile, signup>>

\* GET /api/posts/[id], [id]/route.ts lines 5-11: no session is looked up.
ApiGETid(session, id) ==
    /\ ~http.pending
    /\ GetPostStart(1, id)
    /\ http' = Pending("GETid", session)
    /\ UNCHANGED <<cres, nfiles, nreq, usersFile, signup>>

\* PUT /api/posts/[id], [id]/route.ts lines 30-57.
\* (A faulty variant: the handler without the session check of lines 37-42.)
ApiPUT_open(session, id, body) ==
    /\ ~http.pending
    /\ UpdateStart(1, id, UpdatesOf(body))
    /\ http' = Pending("PUT", session)
    /\ UNCHANGED <<cres, nfiles, nreq, usersFile, signup>>
ApiPUT(session, id, body) ==
    /\ ~http.pending /\ Idle(1)
    /\ IF session = NoSession THEN Answer("PUT", session, 401)
       ELSE /\ UpdateStart(1, id, UpdatesOf(body))
            /\ http' = PendingAs("PUT", session, AuthorInfo(session))
    /\ UNCHANGED <<cres, nfiles, nreq, usersFile, signup>>

\* DELETE /api/posts/[id], [id]/route.ts lines 76-97.
ApiDELETE(session, id) ==
    /\ ~http.pending /\ Idle(1)
    /\ IF session = NoSession THEN Answer("DELETE", session, 401)
       ELSE /\ DeleteStart(1, id)
            /\ http' = PendingAs("DELETE", session, AuthorInfo(session))
    /\ UNCHANGED <<cres, nfiles, nreq, usersFile, signup>>

\* The response each handler builds from what the coordinator returned:
\* route.ts lines 9, 46-53; [id]/route.ts lines 13-20, 59-66, 99-106.
ResponseOf(method, session, ret) ==
    IF method = "GET" THEN Response(method, session, 200, ret)
    ELSE IF method = "DELETE"
         THEN Response(method, session, IF ret THEN 200 ELSE 404, Null)
    ELSE IF ret = Null
         THEN Response(method, session, IF method = "POST" THEN 500 ELSE 404, Null)
    ELSE Response(method, session, IF method = "POST" THEN 201 ELSE 200, ret)

ApiRespond ==
    /\ http.pending /\ req[1].pc = "done"
    /\ http' = ResponseOf(http.method, http.session, req[1].ret)
    /\ UNCHANGED <<now, redis, up, cachePosts, cacheList, files, req, nops,
                   cres, nfiles, nreq, usersFile, signup>>

\* ------------------------------------------------- the users (lib/auth.ts)
\* Concurrent createUser calls, e-mail addresses, and the one name and password
\* the callers give.
SignupCalls == 1..NumReqs
Emails == {"e1", "e2"}

\* bcrypt.hash(password, 12).
Hash(password) == <<"bcrypt", password>>

\* No createUser call made yet.  created collects the users createUser returned.
NoSignup ==
    [call |-> [c \in SignupCalls |-> [pc |-> "done", email |-> "", users |-> <<>>,
                                      ret |-> Null]],
     created |-> {}, n |-> 0]

\* lines 28-35: the stored users; an unreadable file reads as no users.
getUsers(ok) == IF ok THEN usersFile ELSE <<>>

HasEmail(users, email) == \E i \in DOMAIN users : users[i].email = email

\* lines 99-105: read the users; a known e-mail address throws; otherwise the
\* call waits for the hash.
CreateUserStart(c, email, ok) ==
    /\ signup.call[c].pc = "done" /\ signup.n < MaxOps
    /\ LET users == getUsers(ok) IN
          signup' = [signup EXCEPT
              !.n = @ + 1,
              !.call[c] = IF HasEmail(users, email)
                          THEN [pc |-> "done", email |-> email, users |-> <<>>,
                                ret |-> Thrown]
                          ELSE [pc |-> "hash", email |-> email, users |-> users,
                                ret |-> Null]]
    /\ UNCHANGED <<now, redis, up, cachePosts, cacheList, files, req, nops, cres,
                   nfiles, nreq, http, usersFile>>

\* lines 107-119: the hash is there; the new user is pushed on the list read at
\* the start and the list is written over the file.
CreateUserSave(c) ==
    /\ signup.call[c].pc = "hash"
    /\ LET newUser == [id |-> now, email |-> signup.call[c].email,
                       password |-> Hash("p1"), name |-> "a1",
                       createdAt |-> ToISOString(now)]
       IN /\ usersFile' = Append(signup.call[c].users, newUser)
          /\ signup' = [signup EXCEPT
                !.created = @ \cup {newUser},
                !.call[c] = [pc |-> "done", email |-> signup.call[c].email,
                             users |-> <<>>, ret |-> newUser]]
    /\ UNCHANGED <<now, redis, up, cachePosts, cacheList, files, req, nops, cres,
                   nfiles, nreq, http>>

\* ------------------------------------------------------------------- spec
\* The stores as an earlier run of the service left them: empty, or holding one
\* post that createPost wrote at instant 0, with or without its cache entry.
SeedPost == [id |-> 0, title |-> "t0", content |-> "c1", author |-> "a1",
             createdAt |-> ToISOString(0), updatedAt |-> ToISOString(0),
             published |-> FALSE]
SeedFiles == Put(Empty, 0, JSONStringify(SeedPost))
SeedCache == Put(Empty, 0, Setex(Stamp(SeedPost, 0), 0))

Init ==
    /\ now = 0
    /\ redis \in BOOLEAN
    /\ up \in BOOLEAN
    /\ \/ files = Empty /\ cachePosts = Empty
       \/ files = SeedFiles /\ cachePosts = Empty
       \/ files = SeedFiles /\ cachePosts = SeedCache /\ redis
    /\ cacheList = NoList
    /\ req = [r \in Reqs |-> InitReq]
    /\ nops = 0
    /\ cres = NoCall
    /\ nfiles = Empty
    /\ nreq = NaiveIdle
    /\ http = NoRequest
    /\ usersFile = <<>>
    /\ signup = NoSignup

\* Ids a caller may name: those of the posts written so far, and the clock's.
KnownIds == DOMAIN files \cup DOMAIN cachePosts \cup {now}

\* The files whose read fails during a listing: none, or one of them.
Unreadable == {{}} \cup {{i} : i \in DOMAIN files}

\* One call at a time, on call chain 1, within the first milliseconds of a run.
Next ==
    \/ Tick(Millis) /\ UNCHANGED aux
    \/ RedisDown /\ UNCHANGED aux
    \/ RedisUp /\ UNCHANGED aux
    \/ GetAllStart(1) /\ UNCHANGED aux
    \/ GetAllCache(1) /\ UNCHANGED aux
    \/ \E ok \in BOOLEAN, u \in Unreadable : GetAllDurable(1, ok, u) /\ UNCHANGED aux
    \/ \E id \in KnownIds : GetPostStart(1, id) /\ UNCHANGED aux
    \/ GetPostCache(1) /\ UNCHANGED aux
    \/ \E ok \in BOOLEAN : GetPostDurable(1, ok) /\ UNCHANGED aux
    \/ \E draft \in Drafts : CreateStart(1, draft) /\ UNCHANGED aux
    \/ CreateSet(1) /\ UNCHANGED aux
    \/ \E ok \in BOOLEAN : CreateWrite(1, ok) /\ UNCHANGED aux
    \/ CreateInvalidateAll(1) /\ UNCHANGED aux
    \/ CreateRollback(1) /\ UNCHANGED aux
    \/ \E id \in KnownIds, updates \in Updates : UpdateStart(1, id, updates) /\ UNCHANGED aux
    \/ UpdateProbe(1) /\ UNCHANGED aux
    \/ UpdateSet(1) /\ UNCHANGED aux
    \/ \E ok \in BOOLEAN : UpdateSha(1, ok) /\ UNCHANGED aux
    \/ \E ok \in BOOLEAN : UpdateWrite(1, ok) /\ UNCHANGED aux
    \/ UpdateInvalidateAll(1) /\ UNCHANGED aux
    \/ UpdateRevert(1) /\ UNCHANGED aux
    \/ \E id \in KnownIds : DeleteStart(1, id) /\ UNCHANGED aux
    \/ DeleteInvalidate(1) /\ UNCHANGED aux
    \/ \E ok \in BOOLEAN : DeleteSha(1, ok) /\ UNCHANGED aux
    \/ \E ok \in BOOLEAN : DeleteFile(1, ok) /\ UNCHANGED aux
    \/ DeleteInvalidateAll(1) /\ UNCHANGED aux

Spec == Init /\ [][Next]_vars

\* ----------------------------------------------------- the cache store alone
\* A second post, and the lists a caller passes to setAllPosts: CachedBlogPost
\* entries carrying the cachedAt they were read with.
SeedPost1 == [id |-> 1, title |-> "t1", content |-> "c1", author |-> "a1",
              createdAt |-> ToISOString(1), updatedAt |-> ToISOString(1),
              published |-> TRUE]
CachedLists ==
    {Arr(<<>>), Arr(<<Stamp(SeedPost, 0)>>),
     Arr(<<Stamp(SeedPost1, 0), Stamp(SeedPost, 0)>>)}

\* A list snapshot whose entries were stamped at two instants, 0 and 1, and
\* stored at instant 1.
MixedList == Setex(Arr(<<Stamp(SeedPost1, 1), Stamp(SeedPost, 0)>>), 1)

\* The backend holds no key, or the snapshot above just stored.
InitCache ==
    /\ redis \in BOOLEAN
    /\ up \in BOOLEAN
    /\ \/ now = 0 /\ cacheList = NoList
       \/ now = 1 /\ cacheList = MixedList /\ redis
    /\ cachePosts = Empty
    /\ files = Empty
    /\ req = [r \in Reqs |-> InitReq]
    /\ nops = 0
    /\ cres = NoCall
    /\ nfiles = Empty
    /\ nreq = NaiveIdle
    /\ http = NoRequest
    /\ usersFile = <<>>
    /\ signup = NoSignup

\* Ids a caller of the cache store names.
CacheIds == {SeedPost.id, SeedPost1.id}

\* Direct calls of the cache store over the freshness windows.
NextCache ==
    \/ Tick(Times) /\ UNCHANGED aux
    \/ RedisDown /\ UNCHANGED aux
    \/ RedisUp /\ UNCHANGED aux
    \/ EvictPost /\ UNCHANGED aux
    \/ EvictList /\ UNCHANGED aux
    \/ CallGetAllPosts
    \/ \E posts \in CachedLists : CallSetAllPosts(posts)
    \/ \E id \in CacheIds : CallGetPost(id)
    \/ CallSetPost(Stamp(SeedPost, 0))
    \/ \E id \in CacheIds : CallInvalidatePost(id)
    \/ CallInvalidateAllPosts
    \/ CallIsAvailable

SpecCache == InitCache /\ [][NextCache]_vars

\* ------------------------------------------- the cache unavailable throughout
\* The cache is unconfigured, or configured and unreachable for the whole run
\* (whatever it holds); the cache-naive coordinator starts on the same durable
\* store.
InitDown ==
    /\ now = 0
    /\ redis \in BOOLEAN
    /\ up = FALSE
    /\ \/ files = Empty /\ cachePosts = Empty
       \/ files = SeedFiles /\ cachePosts = Empty
       \/ files = SeedFiles /\ cachePosts = SeedCache /\ redis
    /\ cacheList = NoList
    /\ req = [r \in Reqs |-> InitReq]
    /\ nops = 0
    /\ cres = NoCall
    /\ nfiles = files
    /\ nreq = NaiveIdle
    /\ http = NoRequest
    /\ usersFile = <<>>
    /\ signup = NoSignup

\* Each call, and each durable-store step with its outcome, is made of both
\* coordinators at once; the probe of the cache is a step of GitHubService alone.
NextDown ==
    \/ Tick(Millis) /\ UNCHANGED aux
    \/ GetAllStart(1) /\ NaiveGetAllStart /\ UNCHANGED <<cres, http, usersFile, signup>>
    \/ \E ok \in BOOLEAN, u \in Unreadable :
          GetAllDurable(1, ok, u) /\ NaiveGetAllDurable(ok, u) /\ UNCHANGED <<cres, http, usersFile, signup>>
    \/ \E id \in KnownIds : GetPostStart(1, id) /\ NaiveGetPostStart(id) /\ UNCHANGED <<cres, http, usersFile, signup>>
    \/ \E ok \in BOOLEAN : GetPostDurable(1, ok) /\ NaiveGetPostDurable(ok) /\ UNCHANGED <<cres, http, usersFile, signup>>
    \/ \E draft \in Drafts : CreateStart(1, draft) /\ NaiveCreateStart(draft) /\ UNCHANGED <<cres, http, usersFile, signup>>
    \/ \E ok \in BOOLEAN : CreateWrite(1, ok) /\ NaiveCreateWrite(ok) /\ UNCHANGED <<cres, http, usersFile, signup>>
    \/ \E id \in KnownIds, updates \in Updates :
          UpdateStart(1, id, updates) /\ NaiveUpdateStart(id, updates) /\ UNCHANGED <<cres, http, usersFile, signup>>
    \/ UpdateProbe(1) /\ UNCHANGED aux
    \/ \E ok \in BOOLEAN : UpdateSha(1, ok) /\ NaiveUpdateSha(ok) /\ UNCHANGED <<cres, http, usersFile, signup>>
    \/ \E ok \in BOOLEAN : UpdateWrite(1, ok) /\ NaiveUpdateWrite(ok) /\ UNCHANGED <<cres, http, usersFile, signup>>
    \/ \E id \in KnownIds : DeleteStart(1, id) /\ NaiveDeleteStart(id) /\ UNCHANGED <<cres, http, usersFile, signup>>
    \/ \E ok \in BOOLEAN : DeleteSha(1, ok) /\ NaiveDeleteSha(ok) /\ UNCHANGED <<cres, http, usersFile, signup>>
    \/ \E ok \in BOOLEAN : DeleteFile(1, ok) /\ NaiveDeleteFile(ok) /\ UNCHANGED <<cres, http, usersFile, signup>>

SpecDown == InitDown /\ [][NextDown]_vars

\* ------------------------------------------------------- the read paths
\* The durable store holding two posts.
TwoFiles == Put(SeedFiles, SeedPost1.id, JSONStringify(SeedPost1))

\* Cache keys written by a caller that stamped them at instant 0 and whose
\* setex reached the backend at instant 1: the entry of the first post, and
\* list snapshots (an empty one, and the two posts oldest first).
LateCache == Put(Empty, SeedPost.id, Setex(Stamp(SeedPost, 0), 1))
LateLists ==
    {Setex(Arr(<<>>), 1),
     Setex(Arr(<<Stamp(SeedPost, 0), Stamp(SeedPost1, 0)>>), 1)}

InitRead ==
    /\ now = 1
    /\ redis \in BOOLEAN
    /\ up \in BOOLEAN
    /\ files \in {Empty, SeedFiles, TwoFiles}
    /\ cachePosts \in {Empty, LateCache}
    /\ cacheList \in {NoList} \cup LateLists
    /\ (cachePosts # Empty \/ cacheList # NoList) => redis
    /\ req = [r \in Reqs |-> InitReq]
    /\ nops = 0
    /\ cres = NoCall
    /\ nfiles = Empty
    /\ nreq = NaiveIdle
    /\ http = NoRequest
    /\ usersFile = <<>>
    /\ signup = NoSignup

\* getAllPosts and getPost calls, one at a time, over the freshness windows.
NextRead ==
    \/ Tick(Times) /\ UNCHANGED aux
    \/ RedisDown /\ UNCHANGED aux
    \/ RedisUp /\ UNCHANGED aux
    \/ EvictPost /\ UNCHANGED aux
    \/ EvictList /\ UNCHANGED aux
    \/ GetAllStart(1) /\ UNCHANGED aux
    \/ GetAllCache(1) /\ UNCHANGED aux
    \/ \E ok \in BOOLEAN, u \in Unreadable : GetAllDurable(1, ok, u) /\ UNCHANGED aux
    \/ \E id \in KnownIds : GetPostStart(1, id) /\ UNCHANGED aux
    \/ GetPostCache(1) /\ UNCHANGED aux
    \/ \E ok \in BOOLEAN : GetPostDurable(1, ok) /\ UNCHANGED aux

SpecRead == InitRead /\ [][NextRead]_vars

\* --------------------------------------------------- calls through the API
\* Every coordinator call is made by a handler of the posts API, one request at
\* a time, against a cache that stays reachable.
InitApi ==
    /\ now = 0
    /\ redis = TRUE
    /\ up = TRUE
    /\ \/ files = Empty /\ cachePosts = Empty
       \/ files = SeedFiles /\ cachePosts = SeedCache
    /\ cacheList = NoList
    /\ req = [r \in Reqs |-> InitReq]
    /\ nops = 0
    /\ cres = NoCall
    /\ nfiles = Empty
    /\ nreq = NaiveIdle
    /\ http = NoRequest
    /\ usersFile = <<>>
    /\ signup = NoSignup

Callers == Sessions \cup {NoSession}

NextApi ==
    \/ Tick(Millis) /\ UNCHANGED aux
    \/ \E s \in Callers : ApiGET(s)
    \/ \E s \in Callers, body \in PostBodies : ApiPOST(s, body)
    \/ \E s \in Callers, id \in KnownIds : ApiGETid(s, id)
    \/ \E s \in Callers, id \in KnownIds, body \in PutBodies : ApiPUT(s, id, body)
    \/ \E s \in Callers, id \in KnownIds : ApiDELETE(s, id)
    \/ ApiRespond
    \/ GetAllCache(1) /\ UNCHANGED aux
    \/ \E ok \in BOOLEAN, u \in Unreadable : GetAllDurable(1, ok, u) /\ UNCHANGED aux
    \/ GetPostCache(1) /\ UNCHANGED aux
    \/ \E ok \in BOOLEAN : GetPostDurable(1, ok) /\ UNCHANGED aux
    \/ CreateSet(1) /\ UNCHANGED aux
    \/ \E ok \in BOOLEAN : CreateWrite(1, ok) /\ UNCHANGED aux
    \/ CreateInvalidateAll(1) /\ UNCHANGED aux
    \/ CreateRollback(1) /\ UNCHANGED aux
    \/ UpdateProbe(1) /\ UNCHANGED aux
    \/ UpdateSet(1) /\ UNCHANGED aux
    \/ \E ok \in BOOLEAN : UpdateSha(1, ok) /\ UNCHANGED aux
    \/ \E ok \in BOOLEAN : UpdateWrite(1, ok) /\ UNCHANGED aux
    \/ UpdateInvalidateAll(1) /\ UNCHANGED aux
    \/ UpdateRevert(1) /\ UNCHANGED aux
    \/ DeleteInvalidate(1) /\ UNCHANGED aux
    \/ \E ok \in BOOLEAN : DeleteSha(1, ok) /\ UNCHANGED aux
    \/ \E ok \in BOOLEAN : DeleteFile(1, ok) /\ UNCHANGED aux
    \/ DeleteInvalidateAll(1) /\ UNCHANGED aux

SpecApi == InitApi /\ [][NextApi]_vars

\* ------------------------------------------ one post across the window
\* The post createPost wrote at instant 0 is in the cache, stamped 0.  The
\* durable store holds it, or holds it no longer: a deletePost that ran while
\* the backend was unreachable removed the file and left the entry.  The post
\* is then read and updated across one freshness window.
InitWindow ==
    /\ now = 0
    /\ redis = TRUE
    /\ up \in BOOLEAN
    /\ files \in {Empty, SeedFiles}
    /\ cachePosts = SeedCache
    /\ cacheList = NoList
    /\ req = [r \in Reqs |-> InitReq]
    /\ nops = 0
    /\ cres = NoCall
    /\ nfiles = Empty
    /\ nreq = NaiveIdle
    /\ http = NoRequest
    /\ usersFile = <<>>
    /\ signup = NoSignup

NextWindow ==
    \/ Tick(Times) /\ UNCHANGED aux
    \/ RedisDown /\ UNCHANGED aux
    \/ RedisUp /\ UNCHANGED aux
    \/ EvictPost /\ UNCHANGED aux
    \/ GetPostStart(1, SeedPost.id) /\ UNCHANGED aux
    \/ GetPostCache(1) /\ UNCHANGED aux
    \/ \E ok \in BOOLEAN : GetPostDurable(1, ok) /\ UNCHANGED aux
    \/ \E updates \in Updates : UpdateStart(1, SeedPost.id, updates) /\ UNCHANGED aux
    \/ UpdateProbe(1) /\ UNCHANGED aux
    \/ UpdateSet(1) /\ UNCHANGED aux
    \/ \E ok \in BOOLEAN : UpdateSha(1, ok) /\ UNCHANGED aux
    \/ \E ok \in BOOLEAN : UpdateWrite(1, ok) /\ UNCHANGED aux
    \/ UpdateInvalidateAll(1) /\ UNCHANGED aux
    \/ UpdateRevert(1) /\ UNCHANGED aux

SpecWindow == InitWindow /\ [][NextWindow]_vars

\* ------------------------------------------------- creates side by side
\* createPost calls on every call chain, their steps interleaved, on empty
\* stores.
InitCreate ==
    /\ now = 0
    /\ redis \in BOOLEAN
    /\ up \in BOOLEAN
    /\ files = Empty
    /\ cachePosts = Empty
    /\ cacheList = NoList
    /\ req = [r \in Reqs |-> InitReq]
    /\ nops = 0
    /\ cres = NoCall
    /\ nfiles = Empty
    /\ nreq = NaiveIdle
    /\ http = NoRequest
    /\ usersFile = <<>>
    /\ signup = NoSignup

NextCreate ==
    \/ Tick(Millis) /\ UNCHANGED aux
    \/ \E r \in Reqs, draft \in Drafts : CreateStart(r, draft) /\ UNCHANGED aux
    \/ \E r \in Reqs : CreateSet(r) /\ UNCHANGED aux
    \/ \E r \in Reqs, ok \in BOOLEAN : CreateWrite(r, ok) /\ UNCHANGED aux
    \/ \E r \in Reqs : CreateInvalidateAll(r) /\ UNCHANGED aux
    \/ \E r \in Reqs : CreateRollback(r) /\ UNCHANGED aux

SpecCreate == InitCreate /\ [][NextCreate]_vars

\* ------------------------------------------- listing a hand-edited store
\* The durable store is a repository directory: besides the files createPost
\* wrote it may hold files whose content is no post.  getAllPosts lists it.
FileChoices(id) ==
    IF id = SeedPost.id THEN {JSONStringify(SeedPost), Garbage}
    ELSE IF id = SeedPost1.id THEN {JSONStringify(SeedPost1), JsonNull}
    ELSE {Garbage, JsonNull}
ListedIds == {SeedPost.id, SeedPost1.id, 2}
StoresWithMalformed ==
    UNION {[ids -> UNION {FileChoices(i) : i \in ids}] : ids \in SUBSET ListedIds}

InitList ==
    /\ now = 0
    /\ redis \in BOOLEAN
    /\ up \in BOOLEAN
    /\ files \in {f \in StoresWithMalformed : \A i \in DOMAIN f : f[i] \in FileChoices(i)}
    /\ cachePosts = Empty
    /\ cacheList = NoList
    /\ req = [r \in Reqs |-> InitReq]
    /\ nops = 0
    /\ cres = NoCall
    /\ nfiles = Empty
    /\ nreq = NaiveIdle
    /\ http = NoRequest
    /\ usersFile = <<>>
    /\ signup = NoSignup

NextList ==
    \/ Tick(Millis) /\ UNCHANGED aux
    \/ GetAllStart(1) /\ UNCHANGED aux
    \/ GetAllCache(1) /\ UNCHANGED aux
    \/ \E ok \in BOOLEAN, u \in Unreadable : GetAllDurable(1, ok, u) /\ UNCHANGED aux

SpecList == InitList /\ [][NextList]_vars

\* ------------------------------------------------ a list snapshot present
\* The post createPost wrote at instant 0 is stored and cached, and the key
\* blog:posts:list holds a snapshot of the list, stored by setAllPosts at
\* instant 0.
SeedList == Setex(Arr(<<Stamp(SeedPost, 0)>>), 0)
InitSnapshot ==
    /\ now = 0
    /\ redis = TRUE
    /\ up \in BOOLEAN
    /\ files = SeedFiles
    /\ cachePosts = SeedCache
    /\ cacheList = SeedList
    /\ req = [r \in Reqs |-> InitReq]
    /\ nops = 0
    /\ cres = NoCall
    /\ nfiles = Empty
    /\ nreq = NaiveIdle
    /\ http = NoRequest
    /\ usersFile = <<>>
    /\ signup = NoSignup

\* The backend stays reachable through a call's probe, cache write and durable
\* write: it becomes unreachable only between calls or once a call has its
\* durable result and is about to drop the list snapshot.
RedisDownBetween ==
    /\ req[1].pc \in {"done", "c_invall", "u_invall", "d_invall"}
    /\ RedisDown

NextSnapshot ==
    \/ Tick(Millis) /\ UNCHANGED aux
    \/ RedisDownBetween /\ UNCHANGED aux
    \/ RedisUp /\ UNCHANGED aux
    \/ GetAllStart(1) /\ UNCHANGED aux
    \/ GetAllCache(1) /\ UNCHANGED aux
    \/ \E ok \in BOOLEAN, u \in Unreadable : GetAllDurable(1, ok, u) /\ UNCHANGED aux
    \/ GetPostCache(1) /\ UNCHANGED aux
    \/ \E ok \in BOOLEAN : GetPostDurable(1, ok) /\ UNCHANGED aux
    \/ \E draft \in Drafts : CreateStart(1, draft) /\ UNCHANGED aux
    \/ CreateSet(1) /\ UNCHANGED aux
    \/ \E ok \in BOOLEAN : CreateWrite(1, ok) /\ UNCHANGED aux
    \/ CreateInvalidateAll(1) /\ UNCHANGED aux
    \/ CreateRollback(1) /\ UNCHANGED aux
    \/ \E id \in KnownIds, updates \in Updates : UpdateStart(1, id, updates) /\ UNCHANGED aux
    \/ UpdateProbe(1) /\ UNCHANGED aux
    \/ UpdateSet(1) /\ UNCHANGED aux
    \/ \E ok \in BOOLEAN : UpdateSha(1, ok) /\ UNCHANGED aux
    \/ \E ok \in BOOLEAN : UpdateWrite(1, ok) /\ UNCHANGED aux
    \/ UpdateInvalidateAll(1) /\ UNCHANGED aux
    \/ UpdateRevert(1) /\ UNCHANGED aux
    \/ \E id \in KnownIds : DeleteStart(1, id) /\ UNCHANGED aux
    \/ DeleteInvalidate(1) /\ UNCHANGED aux
    \/ \E ok \in BOOLEAN : DeleteSha(1, ok) /\ UNCHANGED aux
    \/ \E ok \in BOOLEAN : DeleteFile(1, ok) /\ UNCHANGED aux
    \/ DeleteInvalidateAll(1) /\ UNCHANGED aux

SpecSnapshot == InitSnapshot /\ [][NextSnapshot]_vars

\* ------------------------------------------------- updates side by side
\* updatePost calls for the stored post on two call chains, their steps
\* interleaved, with the backend reachable; the callers change different fields.
ContendedUpdates == {[title |-> "t3"], [content |-> "c2"]}
\* The two call chains the contending calls run on.
Contenders == {1, 2}

InitContend ==
    /\ now = 0
    /\ redis = TRUE
    /\ up = TRUE
    /\ files = SeedFiles
    /\ cachePosts \in {Empty, SeedCache}
    /\ cacheList = NoList
    /\ req = [r \in Reqs |-> InitReq]
    /\ nops = 0
    /\ cres = NoCall
    /\ nfiles = Empty
    /\ nreq = NaiveIdle
    /\ http = NoRequest
    /\ usersFile = <<>>
    /\ signup = NoSignup

NextContend ==
    \/ Tick(Millis) /\ UNCHANGED aux
    \/ \E r \in Contenders, updates \in ContendedUpdates :
          UpdateStart(r, SeedPost.id, updates) /\ UNCHANGED aux
    \/ \E r \in Contenders : GetPostCache(r) /\ UNCHANGED aux
    \/ \E r \in Contenders, ok \in BOOLEAN : GetPostDurable(r, ok) /\ UNCHANGED aux
    \/ \E r \in Contenders : UpdateProbe(r) /\ UNCHANGED aux
    \/ \E r \in Contenders : UpdateSet(r) /\ UNCHANGED aux
    \/ \E r \in Contenders, ok \in BOOLEAN : UpdateSha(r, ok) /\ UNCHANGED aux
    \/ \E r \in Contenders, ok \in BOOLEAN : UpdateWrite(r, ok) /\ UNCHANGED aux
    \/ \E r \in Contenders : UpdateInvalidateAll(r) /\ UNCHANGED aux
    \/ \E r \in Contenders : UpdateRevert(r) /\ UNCHANGED aux

SpecContend == InitContend /\ [][NextContend]_vars

\* ------------------------------------------------ the life of an entry
\* The stored post with no cache entry, or with the entry a setPost stamped at
\* instant 0 and the backend stored at instant 1; reads, updates and deletes of
\* posts and direct reads of the cache, over the freshness windows, with the
\* backend reachable, or not, for the whole run.
InitLife ==
    /\ now = 1
    /\ redis = TRUE
    /\ up \in BOOLEAN
    /\ files = SeedFiles
    /\ cachePosts \in {Empty, LateCache}
    /\ cacheList = NoList
    /\ req = [r \in Reqs |-> InitReq]
    /\ nops = 0
    /\ cres = NoCall
    /\ nfiles = Empty
    /\ nreq = NaiveIdle
    /\ http = NoRequest
    /\ usersFile = <<>>
    /\ signup = NoSignup

\* The instants the clock shows in such a run: one millisecond into each window.
LifeTimes == {k * CACHE_TTL * MsPerSec + 1 : k \in 0..MaxWindows}

NextLife ==
    \/ Tick(LifeTimes) /\ UNCHANGED aux
    \/ EvictPost /\ UNCHANGED aux
    \/ \E id \in DOMAIN SeedFiles : CallGetPost(id)
    \/ \E id \in DOMAIN SeedFiles : GetPostStart(1, id) /\ UNCHANGED aux
    \/ GetPostCache(1) /\ UNCHANGED aux
    \/ \E ok \in BOOLEAN : GetPostDurable(1, ok) /\ UNCHANGED aux
    \/ \E id \in DOMAIN SeedFiles, updates \in Updates : UpdateStart(1, id, updates) /\ UNCHANGED aux
    \/ UpdateProbe(1) /\ UNCHANGED aux
    \/ UpdateSet(1) /\ UNCHANGED aux
    \/ \E ok \in BOOLEAN : UpdateSha(1, ok) /\ UNCHANGED aux
    \/ \E ok \in BOOLEAN : UpdateWrite(1, ok) /\ UNCHANGED aux
    \/ UpdateInvalidateAll(1) /\ UNCHANGED aux
    \/ UpdateRevert(1) /\ UNCHANGED aux
    \/ GetAllStart(1) /\ UNCHANGED aux
    \/ GetAllCache(1) /\ UNCHANGED aux
    \/ \E ok \in BOOLEAN : GetAllDurable(1, ok, {}) /\ UNCHANGED aux
    \/ \E draft \in Drafts : CreateStart(1, draft) /\ UNCHANGED aux
    \/ CreateSet(1) /\ UNCHANGED aux
    \/ \E ok \in BOOLEAN : CreateWrite(1, ok) /\ UNCHANGED aux
    \/ CreateInvalidateAll(1) /\ UNCHANGED aux
    \/ CreateRollback(1) /\ UNCHANGED aux
    \/ \E id \in DOMAIN SeedFiles : DeleteStart(1, id) /\ UNCHANGED aux
    \/ DeleteInvalidate(1) /\ UNCHANGED aux
    \/ \E ok \in BOOLEAN : DeleteSha(1, ok) /\ UNCHANGED aux
    \/ \E ok \in BOOLEAN : DeleteFile(1, ok) /\ UNCHANGED aux
    \/ DeleteInvalidateAll(1) /\ UNCHANGED aux

SpecLife == InitLife /\ [][NextLife]_vars

\* ------------------------------------------------------- creating users
\* createUser calls, one after the other and at the same time, on a users file
\* that starts empty (lines 16-18) and that every call can read; the clock runs
\* between them.
InitUsers == Init /\ files = Empty /\ redis /\ up

NextUsers ==
    \/ Tick(Millis) /\ UNCHANGED aux
    \/ \E c \in SignupCalls, email \in Emails : CreateUserStart(c, email, TRUE)
    \/ \E c \in SignupCalls : CreateUserSave(c)

SpecUsers == InitUsers /\ [][NextUsers]_vars

\* ------------------------------------------------------------------ claims
\* The call on chain 1 has returned from operation op.
Returned(op) == req[1].pc = "done" /\ req[1].op = op

\* C1: a getPost of the id a successful createPost just returned yields the
\* post createPost returned, field for field and without cachedAt: when the
\* cache is available (createPost's cache write reached the backend and getPost
\* is served from the cache) and when it is not (getPost reads the durable
\* store, and the read does not fail).
C1_CreateThenGet ==
    (/\ Returned("getPost")
     /\ req[1].last.op = "createPost"
     /\ req[1].last.ret # Null
     /\ req[1].id = req[1].last.id
     /\ \/ req[1].via = "durable"
        \/ req[1].via = "cache" /\ req[1].last.wrote)
    => req[1].ret = req[1].last.ret

C1_Witness ==
    /\ Returned("getPost")
    /\ req[1].last.op = "createPost"
    /\ req[1].last.ret # Null
    /\ req[1].id = req[1].last.id
    /\ req[1].via = "cache" /\ req[1].last.wrote
    /\ req[1].ret = req[1].last.ret
    /\ DOMAIN req[1].ret =
          {"id", "title", "content", "author", "createdAt", "updatedAt", "published"}

\* C2: when createPost's durable write fails, the cache holds no entry for the
\* new id once createPost has returned: here for the entry createPost itself
\* wrote (its optimistic cache write reached the backend).
C2_NoEntryAfterFailedCreate ==
    [][(/\ req[1].pc = "c_invpost"
        /\ req[1].wrote
        /\ req'[1].pc = "done")
       => (req'[1].ret = Null /\ req[1].id \notin DOMAIN cachePosts')]_vars

\* C3: when updatePost's durable write fails after the optimistic cache write,
\* the cache entry for the id is, once updatePost has returned, the post that
\* updatePost loaded, stamped with the time of the rollback.
C3_RevertAfterFailedUpdate ==
    [][(/\ req[1].pc = "u_revert"
        /\ req[1].wrote
        /\ req'[1].pc = "done")
       => (/\ req'[1].ret = Null
           /\ req[1].id \in DOMAIN cachePosts'
           /\ cachePosts'[req[1].id].val = Stamp(req[1].existingPost, now))]_vars

\* A fresh cache entry for id exists in the backend.
FreshEntry(id) ==
    id \in DOMAIN cachePosts /\ ~Expired(cachePosts[id].val, now)

\* C4: an updatePost of an id with neither a fresh cache entry nor a durable
\* record returns null and changes nothing: the load misses the cache, finds
\* no file, and the call returns before any cache or durable write.
C4_UpdateMissing ==
    [][(req'[1].op = "updatePost" /\ req'[1].pc # req[1].pc) =>
          /\ req[1].pc = "done"
                => UNCHANGED <<cachePosts, cacheList, files>>
          /\ (req[1].pc = "g_cache" /\ ~FreshEntry(req[1].id))
                => (req'[1].pc = "g_durable" /\ UNCHANGED <<cachePosts, cacheList, files>>)
          /\ (req[1].pc = "g_durable" /\ req[1].id \notin DOMAIN files)
                => (/\ req'[1].pc = "done" /\ req'[1].ret = Null
                    /\ UNCHANGED <<cachePosts, cacheList, files>>)]_vars

C4_Witness ==
    /\ Returned("updatePost")
    /\ req[1].via = "durable"
    /\ req[1].ret = Null
    /\ req[1].id \notin DOMAIN files
    /\ ~FreshEntry(req[1].id)

\* C5: once deletePost(id) has returned true, a getPost(id) returns null.
C5_GetAfterDelete ==
    (/\ Returned("getPost")
     /\ req[1].last.op = "deletePost"
     /\ req[1].last.ret = TRUE
     /\ req[1].id = req[1].last.id)
    => req[1].ret = Null

\* C6: a deletePost of an id with no durable record returns false, and no step
\* of it changes the durable store: the call returns when it finds no sha.
C6_DeleteMissing ==
    [][(req'[1].op = "deletePost" /\ req'[1].pc # req[1].pc) =>
          /\ req[1].pc \in {"done", "d_inv", "d_sha"} => files' = files
          /\ (req[1].pc = "d_sha" /\ req[1].id \notin DOMAIN files)
                => (req'[1].pc = "done" /\ req'[1].ret = FALSE)]_vars

C6_Witness ==
    /\ Returned("deletePost")
    /\ req[1].ret = FALSE
    /\ req[1].sha = NoSha
    /\ req[1].id \notin DOMAIN files

\* C7: with the cache unconfigured or unreachable for the whole run, the
\* coordinator is at every moment where the cache-naive coordinator is: at the
\* same durable-store step of the same call (its probe of the cache comes before
\* the step), with the same locals, the same result, and the same durable store.
C7_SameAsCacheNaive ==
    /\ files = nfiles
    /\ nreq.pc = (IF req[1].pc = "u_probe" THEN "u_sha" ELSE req[1].pc)
    /\ req[1].op = nreq.op
    /\ req[1].id = nreq.id
    /\ req[1].arg = nreq.arg
    /\ req[1].existingPost = nreq.existingPost
    /\ req[1].post = nreq.post
    /\ req[1].sha = nreq.sha
    /\ req[1].ret = nreq.ret

C7_Witness ==
    /\ redis /\ ~up
    /\ SeedPost.id \in DOMAIN cachePosts
    /\ Returned("updatePost")
    /\ req[1].ret # Null
    /\ req[1].ret = nreq.ret
    /\ files = nfiles
    /\ files[req[1].id] = JSONStringify(req[1].ret)
    /\ files # SeedFiles

\* Milliseconds of the freshness window.
WindowMs == CACHE_TTL * MsPerSec

\* C8: a getAllPosts that reaches the backend after a setAllPosts(list) that
\* reached it at instant t, with no setAllPosts or invalidateAllPosts call in
\* between, returns the list with every entry stamped t when called before
\* t + window, and absent when called later than t + window.
C8_ListWithinWindow ==
    (cres.op = "getAllPosts" /\ cres.reached /\ cres.set # Null) =>
        /\ cres.at < cres.set.at + WindowMs =>
              cres.ret = Arr([i \in DOMAIN cres.set.posts.items |->
                            [f \in DOMAIN cres.set.posts.items[i] |->
                                IF f = "cachedAt" THEN ToISOString(cres.set.at)
                                ELSE cres.set.posts.items[i][f]]])
        /\ cres.at > cres.set.at + WindowMs => cres.ret = Null

C8_Witness ==
    /\ cres.op = "getAllPosts" /\ cres.reached /\ cres.set # Null
    /\ cres.set.at > 0
    /\ cres.at > cres.set.at /\ cres.at < cres.set.at + WindowMs
    /\ Len(cres.set.posts.items) = 2
    /\ cres.ret # Null
    /\ Len(cres.ret.items) = 2
    /\ \A i \in 1..2 : cres.ret.items[i].cachedAt = ToISOString(cres.set.at)

\* Entry i of the stored list snapshot is older than the window.
StaleAt(i) == now - GetTime(cacheList.val.items[i].cachedAt) > WindowMs

\* C9: getAllPosts returns absent whenever an entry of the stored snapshot is
\* older than the window, and whatever it returns that is not absent is the
\* whole stored snapshot.
C9_AllOrNothing ==
    [][(cres'.op = "getAllPosts" /\ UNCHANGED <<now, redis, up, cachePosts, cacheList>>) =>
          /\ (cacheList # NoList /\ \E i \in DOMAIN cacheList.val.items : StaleAt(i))
                => cres'.ret = Null
          /\ cres'.ret # Null => (cacheList # NoList /\ cres'.ret = cacheList.val)]_vars

C9_Witness ==
    /\ cres.op = "getAllPosts" /\ cres.reached /\ cres.at = now
    /\ cres.ret = Null
    /\ cacheList # NoList
    /\ \E i \in DOMAIN cacheList.val.items : StaleAt(i)
    /\ \E i \in DOMAIN cacheList.val.items : ~StaleAt(i)

\* C10: a getPost(id) that reaches the backend returns absent exactly when no
\* entry is stored for id or the stored entry is older than the window (an
\* entry exactly as old as the window is returned), and otherwise returns the
\* stored entry as it is.
C10_GetPostFreshness ==
    [][(/\ cres'.op = "getPost"
        /\ UNCHANGED <<now, redis, up, cachePosts, cacheList>>
        /\ Reachable) =>
          LET id == cres'.id IN
          /\ cres'.ret = Null <=>
                (\/ id \notin DOMAIN cachePosts
                 \/ now - GetTime(cachePosts[id].val.cachedAt) > WindowMs)
          /\ cres'.ret # Null => cres'.ret = cachePosts[id].val]_vars

C10_Witness ==
    /\ cres.op = "getPost" /\ cres.reached /\ cres.at = now
    /\ cres.id \in DOMAIN cachePosts
    /\ now - GetTime(cachePosts[cres.id].val.cachedAt) = WindowMs
    /\ cres.ret = cachePosts[cres.id].val

\* C11: a cache store call made while the backend is unconfigured or does not
\* answer ends with a value and without effect: getAllPosts and getPost return
\* absent, setAllPosts, setPost, invalidatePost and invalidateAllPosts return
\* nothing and leave every key as it was, and isAvailable returns false.
C11_DegradesSilently ==
    [][(cres' # cres /\ ~Reachable) =>
          /\ UNCHANGED <<cachePosts, cacheList>>
          /\ IF cres'.op = "isAvailable" THEN cres'.ret = FALSE
             ELSE cres'.ret = Null]_vars

C11_Witness ==
    /\ cres.op = "getPost" /\ cres.at = now
    /\ redis /\ ~up /\ ~cres.reached
    /\ cres.ret = Null
    /\ FreshEntry(cres.id)

\* The posts of l are in order of createdAt, newest first.
Sorted(l) ==
    \A i, j \in DOMAIN l :
        i < j => GetTime(l[i].createdAt) >= GetTime(l[j].createdAt)

\* C12: every list getAllPosts returns is sorted by createdAt, newest first.
C12_ListSorted ==
    Returned("getAllPosts") => Sorted(req[1].ret.items)

\* The seven post fields of a cached entry.
SevenFields(c) ==
    [f \in DOMAIN c \ {"cachedAt"} |-> c[f]]

\* The backend answers and holds a list snapshot with no entry older than the
\* window.
FreshList ==
    /\ Reachable
    /\ cacheList # NoList
    /\ \A i \in DOMAIN cacheList.val.items : ~StaleAt(i)

\* C13: a getAllPosts whose cache read finds a fresh non-empty snapshot returns
\* it (without cachedAt) at that step, and a getPost whose cache read finds a
\* fresh entry returns it at that step: the call ends before its durable read.
\* An empty snapshot is a miss: the call goes on to the durable store.
C13_HitSkipsDurable ==
    [][(req[1].op \in {"getAllPosts", "getPost"} /\ req'[1].pc # req[1].pc) =>
          /\ (req[1].pc = "a_cache" /\ FreshList /\ Len(cacheList.val.items) > 0)
                => (/\ req'[1].pc = "done"
                    /\ req'[1].via = "cache"
                    /\ req'[1].ret = Arr([i \in DOMAIN cacheList.val.items |->
                                             SevenFields(cacheList.val.items[i])]))
          /\ (req[1].pc = "a_cache" /\ FreshList /\ Len(cacheList.val.items) = 0)
                => req'[1].pc = "a_durable"
          /\ (req[1].pc = "g_cache" /\ Reachable /\ FreshEntry(req[1].id))
                => (/\ req'[1].pc = "done"
                    /\ req'[1].via = "cache"
                    /\ req'[1].ret = SevenFields(cachePosts[req[1].id].val))]_vars

C13_Witness ==
    /\ Returned("getAllPosts")
    /\ req[1].via = "cache"
    /\ Len(req[1].ret.items) = 2
    /\ files = Empty

\* C14: no step of a getAllPosts or getPost call changes a cache key; a call
\* that finds the cache unavailable, or no fresh entry or snapshot in it, goes
\* on to the durable store and returns what that holds, with the cache as it
\* was.
C14_ReadsLeaveCache ==
    [][(req'[1].op \in {"getAllPosts", "getPost"} /\ req'[1].pc # req[1].pc) =>
          /\ UNCHANGED <<cachePosts, cacheList>>
          /\ (req[1].pc = "g_cache" /\ ~(Reachable /\ FreshEntry(req[1].id)))
                => req'[1].pc = "g_durable"
          /\ (req[1].pc = "a_cache" /\ ~FreshList) => req'[1].pc = "a_durable"
          /\ (req[1].pc = "g_durable" /\ req'[1].via = "durable")
                => req'[1].ret = (IF req[1].id \in DOMAIN files
                                 THEN JSONParse(files[req[1].id]) ELSE Null)
          /\ (req[1].pc = "a_durable" /\ req'[1].via = "durable")
                => (/\ Sorted(req'[1].ret.items)
                    /\ {req'[1].ret.items[i] : i \in DOMAIN req'[1].ret.items}
                          = {JSONParse(files[id]) : id \in DOMAIN files}
                    /\ Len(req'[1].ret.items) = Cardinality(DOMAIN files))]_vars

C14_Witness ==
    /\ Returned("getPost")
    /\ req[1].via = "durable"
    /\ req[1].ret = SeedPost
    /\ Reachable
    /\ req[1].id \in DOMAIN cachePosts
    /\ ~FreshEntry(req[1].id)

\* C15: a create, update or delete request that carries no session is answered
\* with status 401 and no data, and the handler performs no coordinator
\* operation: no call is started and neither store changes.
C15_UnauthenticatedWrite ==
    [][(http' # http /\ http'.method \in {"POST", "PUT", "DELETE"}
           /\ http'.session = NoSession) =>
          /\ http'.status = 401 /\ ~http'.pending /\ http'.data = Null
          /\ UNCHANGED <<req, nops, cachePosts, cacheList, files>>]_vars

\* A DELETE of the stored post without a session was refused: the post is still
\* in both stores and no coordinator call was ever started.
C15_Witness ==
    /\ http.method = "DELETE" /\ http.session = NoSession /\ http.status = 401
    /\ files = SeedFiles /\ SeedPost.id \in DOMAIN cachePosts /\ nops = 0

\* C16: every API route is protected: a request without a session, whatever
\* its method, is answered 401 and is given no post data.
C16_AllRoutesProtected ==
    (http.method # "none" /\ ~http.pending /\ http.session = NoSession) =>
        (http.status = 401 /\ http.data = Null)

\* C17: a post version that is not the durable store's current version is not
\* returned by getPost more than the freshness window after it was first
\* written to the cache.  The version written at instant 0 (SeedPost, cached
\* with stamp 0) is returned from the cache only within the window whenever the
\* durable store holds no such post or another version of it.
SeedCurrent ==
    SeedPost.id \in DOMAIN files /\ JSONParse(files[SeedPost.id]) = SeedPost
C17_WindowBound ==
    [][(req[1].op = "getPost" /\ req[1].pc = "g_cache" /\ req'[1].pc = "done"
           /\ req'[1].via = "cache" /\ req'[1].ret = SeedPost /\ ~SeedCurrent) =>
          now <= WindowMs]_vars

\* C18: in every reachable state every post held in the durable store or in
\* the cache has updatedAt >= createdAt and carries the id it is addressed by
\* (its file name, its cache key); as the id of a stored record is always the
\* one it is addressed by, no createPost or updatePost changes a post's id.
WellFormed(p, id) ==
    p.id = id /\ GetTime(p.updatedAt) >= GetTime(p.createdAt)
C18_PostInvariants ==
    /\ \A id \in DOMAIN files : WellFormed(JSONParse(files[id]), id)
    /\ \A id \in DOMAIN cachePosts : WellFormed(cachePosts[id].val, id)
    /\ cacheList # NoList =>
          \A i \in DOMAIN cacheList.val.items :
             WellFormed(cacheList.val.items[i], cacheList.val.items[i].id)

\* A PUT has updated the post created at instant 0 at a later instant, and a
\* POST has created a second post: both are stored under their own ids.
C18_Witness ==
    /\ http.method = "POST" /\ http.status = 201
    /\ SeedPost.id \in DOMAIN files
    /\ JSONParse(files[SeedPost.id]).title = "t3"
    /\ GetTime(JSONParse(files[SeedPost.id]).updatedAt) > 0
    /\ http.data.id \in DOMAIN files /\ http.data.id # SeedPost.id

\* C19: no two createPost calls are assigned the same id, whether they run one
\* after the other or side by side, within one clock tick or not.
C19_UniqueIds ==
    \A r1, r2 \in Reqs :
       (r1 # r2 /\ req[r1].op = "createPost" /\ req[r2].op = "createPost") =>
          req[r1].id # req[r2].id

\* C20: a failure of the durable store reaches the caller as a value.  A
\* listing that fails makes getAllPosts return the empty list; a record that is
\* missing or cannot be read makes getPost return absent; a durable write that
\* does not land makes createPost and updatePost return absent, at that step or
\* at the cache rollback that follows it; a file that is missing, or is still
\* there after the delete, makes deletePost return false.
Landed(q) ==
    q.id \in DOMAIN files' /\ files'[q.id] = JSONStringify(q.post)
C20_FailuresAreValues ==
    [][(req'[1].pc # req[1].pc) =>
          /\ (req[1].pc = "a_durable" /\ req'[1].via = "failed") =>
                (req'[1].pc = "done" /\ req'[1].ret = Arr(<<>>))
          /\ (req[1].pc = "g_durable" /\ req[1].op = "getPost"
                 /\ (req'[1].via = "failed" \/ req[1].id \notin DOMAIN files)) =>
                (req'[1].pc = "done" /\ req'[1].ret = Null)
          /\ (req[1].pc \in {"c_write", "u_write"} /\ ~Landed(req[1])) =>
                \/ req'[1].pc = "done" /\ req'[1].ret = Null
                \/ req'[1].pc = (IF req[1].pc = "c_write" THEN "c_invpost"
                                 ELSE "u_revert")
          /\ (req[1].pc \in {"c_invpost", "u_revert"}) =>
                (req'[1].pc = "done" /\ req'[1].ret = Null)
          /\ (req[1].pc = "d_sha" /\ req[1].id \notin DOMAIN files) =>
                (req'[1].pc = "done" /\ req'[1].ret = FALSE)
          /\ (req[1].pc = "d_del" /\ req[1].id \in DOMAIN files') =>
                (req'[1].pc = "done" /\ req'[1].ret = FALSE)]_vars

\* A createPost whose durable write failed has returned absent, after the
\* rollback of its cache entry; the durable store does not hold the post.
C20_Witness ==
    /\ Returned("createPost") /\ req[1].ret = Null
    /\ req[1].id \notin DOMAIN files /\ req[1].id \notin DOMAIN cachePosts
    /\ req[1].wrote

\* C21: when getAllPosts reads the durable store and every file can be read,
\* the result holds exactly the posts of the records that parse as a post,
\* newest first; a record that does not is skipped and neither aborts the
\* listing nor empties the result.
IsPostFile(c) == Len(c) = 7
PostIds == {i \in DOMAIN files : IsPostFile(files[i])}
C21_MalformedSkipped ==
    (Returned("getAllPosts") /\ req[1].via = "durable") =>
        LET l == req[1].ret.items IN
           /\ Len(l) = Cardinality(PostIds)
           /\ {l[i] : i \in DOMAIN l} = {JSONParse(files[i]) : i \in PostIds}
           /\ \A i, j \in DOMAIN l : i < j => l[i] # Null /\ l[j] # Null
                 /\ GetTime(l[i].createdAt) >= GetTime(l[j].createdAt)

\* C22: within one request the steps run in the stated order.  With the cache
\* found available, the durable write of createPost and updatePost is reached
\* only from the optimistic cache set (for updatePost through the sha lookup),
\* and the durable delete of deletePost only from the cache invalidation of the
\* post; the list invalidation and the rollback are reached only from the
\* durable write or delete, whose result they follow; the durable store changes
\* at the write or delete step alone, the post entries at the set, invalidate,
\* rollback and revert steps alone, the list snapshot at the list invalidation
\* alone.
C22_StepOrder ==
    [][(req'[1].pc # req[1].pc) =>
          /\ (req'[1].pc = "c_write" /\ req'[1].isRedisAvailable) => req[1].pc = "c_set"
          /\ (req'[1].pc = "u_sha" /\ req'[1].isRedisAvailable) => req[1].pc = "u_set"
          /\ (req'[1].pc = "u_write") => req[1].pc = "u_sha"
          /\ (req'[1].pc = "d_sha" /\ req'[1].isRedisAvailable) => req[1].pc = "d_inv"
          /\ (req'[1].pc = "d_del") => req[1].pc = "d_sha"
          /\ (req'[1].pc \in {"c_invall", "c_invpost"}) => req[1].pc = "c_write"
          /\ (req'[1].pc \in {"u_invall", "u_revert"}) => req[1].pc = "u_write"
          /\ (req'[1].pc = "d_invall") => req[1].pc = "d_del"
          /\ (files' # files) => req[1].pc \in {"c_write", "u_write", "d_del"}
          /\ (cachePosts' # cachePosts) =>
                req[1].pc \in {"c_set", "u_set", "d_inv", "c_invpost", "u_revert"}
          /\ (cacheList' # cacheList) =>
                req[1].pc \in {"c_invall", "u_invall", "d_invall"}]_vars

\* createPost is about to issue its durable write: the post is already in the
\* cache and not yet in the durable store.
C22_Witness ==
    /\ req[1].pc = "c_write" /\ req[1].op = "createPost" /\ req[1].wrote
    /\ req[1].id \in DOMAIN cachePosts /\ cachePosts[req[1].id].val.title = req[1].post.title
    /\ req[1].id \notin DOMAIN files

C24_CreatedPostIsCached ==
    [][/\ (req'[1].pc = "done" /\ req'[1].op = "createPost" /\ req'[1].wrote
             /\ req'[1].ret # Null
             /\ now' - GetTime(req'[1].ret.createdAt) < WindowMs) =>
          (/\ req'[1].id \in DOMAIN cachePosts'
           /\ SevenFields(cachePosts'[req'[1].id].val) = req'[1].ret)
       /\ (req[1].pc = "g_cache" /\ req'[1].pc # "g_cache" /\ req[1].op = "getPost"
             /\ Reachable
             /\ req[1].last.op = "createPost" /\ req[1].last.wrote
             /\ req[1].last.ret # Null /\ req[1].id = req[1].last.id
             /\ now - GetTime(req[1].last.ret.createdAt) < WindowMs) =>
          (req'[1].pc = "done" /\ req'[1].via = "cache"
             /\ req'[1].ret = req[1].last.ret)]_vars

\* A getPost issued a tick after the createPost it follows was served the
\* created post from the cache.
C24_Witness ==
    /\ Returned("getPost") /\ req[1].via = "cache"
    /\ req[1].last.op = "createPost" /\ req[1].last.wrote
    /\ req[1].id = req[1].last.id /\ req[1].ret = req[1].last.ret
    /\ now > GetTime(req[1].ret.createdAt)

C26_LastCacheStepWins ==
    [][/\ \A r \in Contenders :
             (req[r].pc = "u_set" /\ req'[r].pc # "u_set" /\ Reachable) =>
                (/\ req[r].id \in DOMAIN cachePosts'
                 /\ cachePosts'[req[r].id].val = Stamp(req[r].post, now))
       /\ \A r \in Contenders :
             (req[r].pc = "u_revert" /\ req'[r].pc # "u_revert" /\ Reachable) =>
                (/\ req[r].id \in DOMAIN cachePosts'
                 /\ cachePosts'[req[r].id].val = Stamp(req[r].existingPost, now))
       /\ (cachePosts' # cachePosts /\ now' = now) =>
             \E r \in Contenders : req[r].pc \in {"u_set", "u_revert"} /\ req'[r].pc # req[r].pc
      ]_vars

\* Both calls have returned their merged post; the cache holds the post of the
\* call whose optimistic set ran last, the durable store that of the call whose
\* write ran last.
C26_Witness ==
    /\ \A r \in {1, 2} : req[r].pc = "done" /\ req[r].op = "updatePost" /\ req[r].ret # Null
    /\ SeedPost.id \in DOMAIN cachePosts
    /\ SevenFields(cachePosts[SeedPost.id].val) = req[1].ret
    /\ JSONParse(files[SeedPost.id]) = req[2].ret
    /\ req[1].ret # req[2].ret

\* C27: the post updatePost builds when it has loaded the existing post is the
\* existing post with each supplied field replaced, updatedAt the time of the
\* merge, id and createdAt those of the existing post; that post, unchanged, is
\* what the optimistic set writes to the cache and what the durable write
\* stores.
Supplied(e, u, f) == IF f \in DOMAIN u THEN u[f] ELSE e[f]
Merged(e, u, t) ==
    [id |-> e.id, title |-> Supplied(e, u, "title"),
     content |-> Supplied(e, u, "content"), author |-> Supplied(e, u, "author"),
     createdAt |-> e.createdAt, updatedAt |-> ToISOString(t),
     published |-> Supplied(e, u, "published")]
C27_MergedPost ==
    [][(req[1].op = "updatePost" /\ req'[1].pc # req[1].pc) =>
          /\ (req'[1].pc = "u_probe") =>
                (/\ req'[1].existingPost =
                      (IF req[1].pc = "g_cache"
                       THEN SevenFields(cachePosts[req[1].id].val)
                       ELSE JSONParse(files[req[1].id]))
                 /\ req'[1].post = Merged(req'[1].existingPost, req[1].arg, now))
          /\ (req[1].pc \in {"u_probe", "u_set", "u_sha", "u_write"}
                 /\ req'[1].pc # "done") => req'[1].post = req[1].post
          /\ (req[1].pc = "u_set" /\ Reachable) =>
                SevenFields(cachePosts'[req[1].id].val) = req[1].post
          /\ (req[1].pc = "u_write" /\ files' # files) =>
                files' = Put(files, req[1].id, JSONStringify(req[1].post))]_vars

\* A PUT that changed the title of the stored post a tick after its creation
\* has answered with the merged post, which both stores hold.
C27_Witness ==
    /\ http.method = "PUT" /\ http.status = 200
    /\ http.data = [SeedPost EXCEPT !.title = "t3", !.updatedAt = ToISOString(1)]
    /\ JSONParse(files[SeedPost.id]) = http.data
    /\ SeedPost.id \in DOMAIN cachePosts
    /\ SevenFields(cachePosts[SeedPost.id].val) = http.data

\* C28: in updatePost the lookup of the revision token never ends the call:
\* whatever its outcome the durable write is the next step.  A write issued
\* without a token leaves an existing file as it is and creates a missing one;
\* when it stores the post the call goes on to the list invalidation (or
\* returns the post, without a cache), when it does not, to the rollback (or
\* returns absent).
C28_NoTokenTolerated ==
    [][(req[1].op = "updatePost" /\ req'[1].pc # req[1].pc) =>
          /\ (req[1].pc = "u_sha") =>
                (/\ req'[1].pc = "u_write"
                 /\ req'[1].sha \in {NoSha} \cup {files[i] : i \in DOMAIN files \cap {req[1].id}}
                 /\ UNCHANGED <<files, cachePosts, cacheList>>)
          /\ (req[1].pc = "u_write" /\ req[1].sha = NoSha) =>
                IF req[1].id \in DOMAIN files
                THEN /\ files' = files
                     /\ IF req[1].isRedisAvailable THEN req'[1].pc = "u_revert"
                        ELSE req'[1].pc = "done" /\ req'[1].ret = Null
                ELSE \/ /\ files' = Put(files, req[1].id, JSONStringify(req[1].post))
                        /\ IF req[1].isRedisAvailable THEN req'[1].pc = "u_invall"
                           ELSE req'[1].pc = "done" /\ req'[1].ret = req[1].post
                     \/ /\ files' = files
                        /\ IF req[1].isRedisAvailable THEN req'[1].pc = "u_revert"
                           ELSE req'[1].pc = "done" /\ req'[1].ret = Null]_vars

\* updatePost found no token for a post that only the cache held; its write,
\* issued without one, stored the merged post and the list invalidation follows.
C28_Witness ==
    /\ req[1].pc = "u_invall" /\ req[1].sha = NoSha
    /\ req[1].id \in DOMAIN files
    /\ files[req[1].id] = JSONStringify(req[1].post)

\* C29: no call retries.  A call leaves its durable write or delete step for
\* the cache step that follows the result, or returns; from there it returns
\* at its next step without touching the durable store; and the durable store
\* changes by one file at most, at the write or delete step, so each call makes
\* one attempt and a failed attempt is followed by no durable mutation.
WriteSteps == {"c_write", "u_write", "d_del"}
AfterWrite == {"c_invall", "c_invpost", "u_invall", "u_revert", "d_invall"}
C29_NoRetry ==
    [][(req'[1].pc # req[1].pc) =>
          /\ (req[1].pc \in WriteSteps) => req'[1].pc \in AfterWrite \cup {"done"}
          /\ (req[1].pc \in AfterWrite) => (req'[1].pc = "done" /\ files' = files)
          /\ (req[1].pc \notin WriteSteps) => files' = files
          /\ (req[1].pc \in WriteSteps) =>
                \A i \in (DOMAIN files \cup DOMAIN files') \ {req[1].id} :
                   i \in DOMAIN files /\ i \in DOMAIN files' /\ files'[i] = files[i]
          /\ (req'[1].pc = "done" /\ req'[1].op \in {"createPost", "updatePost"}
                 /\ req[1].pc \in {"c_invpost", "u_revert"}) => req'[1].ret = Null]_vars

\* The only call made so far, a deletePost of the stored post, has failed and
\* returned false; the durable store is as it was.
C29_Witness ==
    /\ Returned("deletePost") /\ req[1].ret = FALSE /\ nops = 1
    /\ req[1].id = SeedPost.id /\ files = SeedFiles

\* C30: invalidateAllPosts leaves every single-post entry as it was, and when
\* it reaches the backend the list snapshot is gone after it, whatever the
\* snapshot held and however old it was.
C30_InvalidateAllFrame ==
    [][(cres' # cres /\ cres'.op = "invalidateAllPosts") =>
          /\ cachePosts' = cachePosts
          /\ Reachable => cacheList' = NoList
          /\ UNCHANGED <<now, files>>]_vars

\* invalidateAllPosts has just reached the backend: no snapshot is stored, and
\* the entry of a post still is.
C30_Witness ==
    /\ cres.op = "invalidateAllPosts" /\ cres.reached /\ cres.at = now
    /\ cacheList = NoList
    /\ \E id \in CacheIds : FreshEntry(id)

\* C31: the cache entry of a post moves along its lifecycle only.  It becomes
\* fresh, or is replaced while fresh, only at a cache write (the optimistic set
\* or the rollback set of updatePost); a fresh entry becomes stale only as time
\* passes, and is then the same entry; an entry becomes absent only at an
\* invalidation (deletePost's) or when the backend drops it, its time-to-live
\* over; and no read (CacheStore.getPost, the coordinator's getPost, the read
\* that opens updatePost) changes any entry.
EntryState(cp, t, id) ==
    IF id \notin DOMAIN cp THEN "absent"
    ELSE IF Expired(cp[id].val, t) THEN "stale" ELSE "fresh"
CacheWriteStep == req[1].pc \in {"c_set", "u_set", "u_revert"} /\ req'[1].pc # req[1].pc
InvalidateStep == req[1].pc \in {"d_inv", "c_invpost"} /\ req'[1].pc # req[1].pc
ReadStep ==
    \/ cres' # cres /\ cres'.op = "getPost"
    \/ req'[1].pc # req[1].pc /\ req[1].pc \in {"g_cache", "g_durable", "a_cache", "a_durable"}
    \/ req'[1].pc # req[1].pc /\ req'[1].pc \in {"g_cache", "g_durable", "a_cache", "a_durable"}
C31_EntryLifecycle ==
    [][/\ \A id \in DOMAIN cachePosts \cup DOMAIN cachePosts' :
             LET was == EntryState(cachePosts, now, id)
                 is == EntryState(cachePosts', now', id)
             IN /\ (is = "fresh" /\ was # "fresh") => CacheWriteStep
                /\ (is # "absent" /\ was # "absent" /\ cachePosts'[id] # cachePosts[id])
                      => CacheWriteStep
                /\ (was = "fresh" /\ is = "stale") => now' > now
                /\ (was # "absent" /\ is = "absent") =>
                      \/ InvalidateStep
                      \/ cachePosts[id].exp <= now' /\ UNCHANGED <<req, cres>>
       /\ ReadStep => cachePosts' = cachePosts]_vars

\* A getPost has just passed over a stale entry that is still stored, and read
\* the durable store: the entry is as it was.
C31_Witness ==
    /\ Returned("getPost") /\ req[1].via = "durable"
    /\ req[1].id \in DOMAIN cachePosts
    /\ EntryState(cachePosts, now, req[1].id) = "stale"
    /\ cachePosts = LateCache /\ Reachable

\* C32: every durable write or delete made for an authenticated create, update
\* or delete request is signed with the name and the email of the session that
\* made the request.
C32_WritesAttributed ==
    [][(files' # files /\ http.pending /\ http.session # NoSession)
          => Committer(http.author) = AuthorInfo(http.session)]_vars

\* C33: in a run of coordinator operations that starts with no list snapshot,
\* the list snapshot is never stored, and no getAllPosts is answered from the
\* cache: each one that returns went to the durable store.
C33_ListNeverPopulated ==
    /\ cacheList = NoList
    /\ \A r \in Reqs :
          (req[r].pc = "done" /\ req[r].op = "getAllPosts") => req[r].via # "cache"

\* A getAllPosts that followed a createPost whose post went into the cache has
\* returned the stored posts, read from the durable store.
C33_Witness ==
    /\ Returned("getAllPosts") /\ Reachable
    /\ req[1].via = "durable" /\ Len(req[1].ret.items) > 0
    /\ req[1].last.op = "createPost" /\ req[1].last.wrote

\* C34: whenever no call is in flight, every fresh cache entry of a post
\* equals, cachedAt apart, the durable record of its id.
C34_QuiescentCoherence ==
    (\A r \in Reqs : req[r].pc = "done") =>
        \A id \in DOMAIN cachePosts :
            FreshEntry(id) =>
                /\ id \in DOMAIN files
                /\ SevenFields(cachePosts[id].val) = JSONParse(files[id])

\* C35: the durable write of updatePost only overwrites: it stores no record
\* under an id that has none in the durable store when the write is made.
C35_UpdateOnlyOverwrites ==
    [][(req[1].op = "updatePost" /\ req[1].pc = "u_write" /\ req'[1].pc # req[1].pc)
          => DOMAIN files' \subseteq DOMAIN files]_vars

\* C36: the durable write of updatePost changes, in the record it overwrites,
\* only the fields named in partialUpdates and updatedAt: every other field of
\* the record keeps the value the durable store held just before the write.
C36_UnnamedFieldsKept ==
    [][\A r \in Reqs :
          (req[r].op = "updatePost" /\ req[r].pc = "u_write" /\ req'[r].pc # req[r].pc
              /\ files' # files /\ req[r].id \in DOMAIN files) =>
             \A f \in DOMAIN req[r].post \ (DOMAIN req[r].arg \cup {"updatedAt"}) :
                 JSONParse(files'[req[r].id])[f] = JSONParse(files[req[r].id])[f]]_vars

\* C37: an authenticated POST is either refused with status 400, and then no
\* coordinator call is started and neither the cache nor the durable store
\* changes, or it starts a createPost whose draft has a non-empty title and a
\* non-empty content: a request without one of them never reaches createPost.
C37_InvalidCreateRejected ==
    [][(~http.pending /\ http' # http /\ http'.method = "POST"
           /\ http'.session # NoSession) =>
          \/ /\ http'.status = 400 /\ ~http'.pending /\ http'.data = Null
             /\ UNCHANGED <<req, nops, cachePosts, cacheList, files>>
          \/ /\ http'.pending /\ req'[1].op = "createPost" /\ req'[1].pc # "done"
             /\ req'[1].arg.title # "" /\ req'[1].arg.content # ""]_vars

\* A POST with a session and no usable title was refused with 400 before any
\* coordinator call: the stores are as they were at the start.
C37_Witness ==
    /\ http.method = "POST" /\ http.session # NoSession /\ http.status = 400
    /\ ~http.pending /\ nops = 0 /\ req[1].op = "none"
    /\ files = SeedFiles /\ cachePosts = SeedCache

\* C38: after any createUser calls, concurrent ones included, no two stored
\* users share an e-mail address and every user createUser returned is stored;
\* a createUser of an e-mail address that is stored throws and leaves the users
\* file as it is.
StoredUsers == {usersFile[i] : i \in DOMAIN usersFile}
C38_UsersKept ==
    [][/\ \A i, j \in DOMAIN usersFile' :
             usersFile'[i].email = usersFile'[j].email => i = j
       /\ signup'.created \subseteq StoredUsers'
       /\ \A c \in SignupCalls :
             (signup.call[c].pc = "done" /\ signup'.call[c] # signup.call[c]
                 /\ HasEmail(usersFile, signup'.call[c].email)) =>
                (signup'.call[c].ret = Thrown /\ usersFile' = usersFile)]_vars

====
